---- MODULE Spec2Model ----
(***************************************************************************)
(* Particular Audience JavaScript SDK (src/pa-sdk.js): the attribution     *)
(* store (in-memory cache + cookie / localStorage), the enrichment of      *)
(* add-to-cart / checkout / purchase events and the pending event queue.   *)
(*                                                                         *)
(* Representation of JavaScript values.  A JS object is a function from    *)
(* field names to values whose DOMAIN holds exactly the properties with a  *)
(* defined value: a property that is missing and a property whose value is *)
(* undefined are the same thing here (JSON.stringify and _cleanObject drop *)
(* both, and every read of either yields undefined).  Get(o, f) reads a    *)
(* property.  Strings, numbers of event payloads and ids are strings;      *)
(* storedAt / expiresAt are integers (clock readings), isSponsored is a    *)
(* BOOLEAN.  Time is counted in model ticks; TicksPerSecond ticks make one *)
(* second (the precision of Date.toUTCString, used for cookie expiry).     *)
(***************************************************************************)
EXTENDS Integers, Sequences, FiniteSets, TLC

VARIABLES
    now,               \* the clock read by Date.now()
    config,            \* this.config (storageType, attributionWindow, cookiePrefix)
    session,           \* this.session
    attributionData,   \* this.attributionData: the in-memory Map, mapKey -> record
    localStorage,      \* window.localStorage, key -> string
    cookies,           \* the browser's cookie jar, name -> [value, expires]
    pendingEvents,     \* this.pendingEvents
    eventBatchTimeout, \* this.eventBatchTimeout: "pending" while its timer is to fire, else "none"
    idsGenerated,      \* how many click ids _generateId() has produced (in the batch
                       \* specifications: how many events were passed to _queueEvent)
    consumedKeys,      \* history: the (refId, channel) keys a purchase consumed and no click
                       \* has been recorded under since
    purchasedRefs,     \* history: the products a purchase used stored attribution for, with
                       \* no trackClick for the product since
    ret,               \* history: the last call, its outcome and the state before it
    storageFault,      \* the browser's storage: "none" (working), "quota" (localStorage is
                       \* full: setItem throws) or "disabled" (every access throws)
    otherTab,          \* the SDK instance of another tab over the same durable storage:
                       \* its session, attributionData, pendingEvents, eventBatchTimeout
    hist,              \* history: what the clicks and purchases so far did (see NextHist)
    timerDue,          \* the time left until the batch timer fires, in steps of 50 ms
                       \* (kept where the specification counts them: the batch ones)
    sends,             \* the calls of _sendEvents so far, each with its batch, the payload
                       \* it posted if it posted one, and the state of its request
    proxy              \* the backend proxy: its token cache and the requests it was sent

vars == <<now, config, session, attributionData, localStorage, cookies,
          pendingEvents, eventBatchTimeout, idsGenerated, consumedKeys, purchasedRefs,
          ret, storageFault, otherTab, hist, timerDue, sends, proxy>>

----------------------------------------------------------------------------
(* Bounds of the model *)

MaxTime == 2

MaxClicks == 2

MaxQueue == 1

MaxItems == 1

\* the most ticks the clock advances between two consecutive readings of Date.now()
MaxSkew == 1

\* the configured attributionWindow, in ticks
WindowTicks == 2

\* ticks per second: Date.toUTCString() keeps whole seconds only
TicksPerSecond == 2

----------------------------------------------------------------------------
(* JavaScript values *)

Undefined == "<undefined>"

Null == [null |-> TRUE]

Get(o, f) == IF f \in DOMAIN o THEN o[f] ELSE Undefined

\* truthiness of a string-or-undefined value
Truthy(v) == v # Undefined /\ v # ""

\* a number n held by a property, written as the string "#n" (every other value of the
\* model is a string); the numbers that occur
NumberValues == {"#77"}

\* v.length > 0: the length of a string; a number has no length (undefined > 0 is false)
HasLength(v) == v # Undefined /\ v # "" /\ v \notin NumberValues

\* a || b on strings
OrElse(a, b) == IF Truthy(a) THEN a ELSE b

\* an object literal whose properties are those of o; undefined ones vanish
Literal(o) == [f \in {g \in DOMAIN o : o[g] # Undefined} |-> o[f]]

\* m.get(k) of a map whose values are objects: the value, or Null
Lookup(m, k) == IF k \in DOMAIN m THEN m[k] ELSE Null

Put(m, k, v) == [x \in DOMAIN m \cup {k} |-> IF x = k THEN v ELSE m[x]]

Remove(m, k) == [x \in DOMAIN m \ {k} |-> m[x]]

Empty == [x \in {} |-> Null]

\* window.location.href and document.referrer of the page
Href == "https://shop/page"

Referrer == "https://ref"

\* new Date(t).toISOString()
ISO(t) == "T+" \o ToString(t)

----------------------------------------------------------------------------
(* Field groups of click events and attribution records *)

IdentFields == {"recommenderId", "campaignId", "tacticId", "tacticLabel", "bannerId",
                "placementId", "widgetId", "routeId", "retailBoostCollectionCampaignId"}

SponsoredFields == {"adSetId", "adSetVersion", "costPerClick", "costPerAction",
                    "costPerMille", "timeStamp", "hmacSalt", "hmac", "supplierId"}

ClickFields == {"currentUrl", "eventTime", "clickId", "refId", "actionType", "contextType",
                "contextId", "contextData", "redirectUrl", "referralUrl", "personalized",
                "clickPosition", "slot"} \cup IdentFields \cup SponsoredFields

\* the string-valued properties _storeAttributionData copies from the click
RecordFields == {"clickId", "eventTime", "currentUrl", "referralUrl", "actionType",
                 "contextType", "redirectUrl", "clickPosition", "slot"}
                \cup IdentFields \cup SponsoredFields

----------------------------------------------------------------------------
(* Durable storage adapters *)

UseLocalStorage == config.storageType = "localStorage"

\* JSON.stringify of a record / JSON.parse of a stored string
JsonStringify(rec) == [json |-> rec]

JsonParse(str) == str.json

\* a stored string that is not JSON; JSON.parse throws a SyntaxError on it
Corrupt == [corrupt |-> TRUE]

Parses(str) == "json" \in DOMAIN str

\* localStorage.setItem / the assignment to document.cookie throws
WriteThrows == storageFault = "disabled" \/ (storageFault = "quota" /\ UseLocalStorage)

\* localStorage.getItem / the read of document.cookie throws
ReadThrows == storageFault = "disabled"

\* localStorage.removeItem / the assignment to document.cookie throws
RemoveThrows == storageFault = "disabled"

\* new Date(t).toUTCString(): the instant cut to whole seconds
ToUTCString(t) == (t \div TicksPerSecond) * TicksPerSecond

\* document.cookie = name=value; expires=...: an expiry that is not in the future removes it
SetCookie(jar, name, value, expires) ==
    IF expires > now
    THEN Put(jar, name, [value |-> value, expires |-> expires])
    ELSE Remove(jar, name)

\* _getCookie: the value of the unexpired cookie of that name, else null
GetCookie(jar, name) ==
    IF name \in DOMAIN jar /\ jar[name].expires > now THEN jar[name].value ELSE Null

\* the browser drops the cookies whose expiry has been reached at time t
ExpireCookies(jar, t) == [k \in {n \in DOMAIN jar : jar[n].expires > t} |-> jar[k]]

\* localStorage.getItem
GetItem(ls, key) == IF key \in DOMAIN ls THEN ls[key] ELSE Null

\* the three stores the attribution code reads and writes, as one value
Stores == [attributionData |-> attributionData, localStorage |-> localStorage,
           cookies |-> cookies]

----------------------------------------------------------------------------
(* Attribution store *)

\* mutant of the channel suffix: every key is an organic key
SuffixOrganic(isSponsored) == "o"

Suffix(isSponsored) == IF isSponsored THEN "s" ELSE "o"

StorageKey(customerId, productRefId, typeSuffix) ==
    config.cookiePrefix \o "attribution_" \o customerId \o "_" \o productRefId
        \o "_" \o typeSuffix

\* mutant of the cache key: the channel suffix is left out
MapKeyNoSuffix(productRefId, typeSuffix) == productRefId

MapKey(productRefId, typeSuffix) == productRefId \o "_" \o typeSuffix

\* the record _storeAttributionData builds; t1, t2 are its two readings of Date.now()
NewRecord(clickData, t1, t2) ==
    Literal([f \in RecordFields |-> Get(clickData.event, f)])
    @@ [isSponsored |-> clickData.isSponsored,
        storedAt    |-> t1,
        expiresAt   |-> t2 + config.attributionWindow]

\* mutant of _cleanupExpiredAttributionData: only the cache entry is removed
CleanupCacheOnly(st, productRefId, types) ==
    IF ~Truthy(session.customerId) THEN st
    ELSE [st EXCEPT !.attributionData =
             [k \in DOMAIN @ \ {MapKey(productRefId, Suffix(t)) : t \in types} |-> @[k]]]

\* mutant of _cleanupExpiredAttributionData: the channel is ignored, both are dropped
CleanupWholeProduct(st, productRefId, types) ==
    IF ~Truthy(session.customerId) THEN st
    ELSE LET mapKeys == {MapKey(productRefId, Suffix(t)) : t \in {TRUE, FALSE}}
             storageKeys == {StorageKey(session.customerId, productRefId, Suffix(t)) :
                                t \in {TRUE, FALSE}}
         IN [attributionData |-> [k \in DOMAIN st.attributionData \ mapKeys |->
                                     st.attributionData[k]],
             localStorage |-> [k \in DOMAIN st.localStorage \ storageKeys |->
                                  st.localStorage[k]],
             cookies |-> [k \in DOMAIN st.cookies \ storageKeys |-> st.cookies[k]]]

\* _cleanupExpiredAttributionData(productRefId, isSponsored); types = the channels to drop
CleanupExpiredAttributionData(st, productRefId, types) ==
    IF ~Truthy(session.customerId) THEN st
    ELSE LET mapKeys == {MapKey(productRefId, Suffix(t)) : t \in types}
             storageKeys == {StorageKey(session.customerId, productRefId, Suffix(t)) :
                                t \in types}
         IN [attributionData |-> [k \in DOMAIN st.attributionData \ mapKeys |->
                                     st.attributionData[k]],
             localStorage |-> IF UseLocalStorage /\ ~RemoveThrows
                              THEN [k \in DOMAIN st.localStorage \ storageKeys |->
                                       st.localStorage[k]]
                              ELSE st.localStorage,
             cookies |-> IF UseLocalStorage \/ RemoveThrows THEN st.cookies
                         ELSE [k \in DOMAIN st.cookies \ storageKeys |-> st.cookies[k]]]

\* mutant of _storeAttributionData: the new click is merged into the record already cached
StoreAttributionDataMerging(st, productRefId, clickData, t1, t2) ==
    IF ~Truthy(session.customerId) \/ ~Truthy(productRefId) THEN st
    ELSE LET typeSuffix == Suffix(clickData.isSponsored)
             storageKey == StorageKey(session.customerId, productRefId, typeSuffix)
             mapKey == MapKey(productRefId, typeSuffix)
             rec == IF mapKey \in DOMAIN st.attributionData
                    THEN NewRecord(clickData, t1, t2) @@ st.attributionData[mapKey]
                    ELSE NewRecord(clickData, t1, t2)
         IN [attributionData |-> Put(st.attributionData, mapKey, rec),
             localStorage |-> IF UseLocalStorage
                              THEN Put(st.localStorage, storageKey, JsonStringify(rec))
                              ELSE st.localStorage,
             cookies |-> IF UseLocalStorage THEN st.cookies
                         ELSE SetCookie(st.cookies, storageKey, JsonStringify(rec),
                                        ToUTCString(rec.expiresAt))]

\* mutant of _storeAttributionData: the check of session.customerId is missing
StoreAttributionDataWithoutSession(st, productRefId, clickData, t1, t2) ==
    IF ~Truthy(productRefId) THEN st
    ELSE LET typeSuffix == Suffix(clickData.isSponsored)
             storageKey == StorageKey(session.customerId, productRefId, typeSuffix)
             mapKey == MapKey(productRefId, typeSuffix)
             rec == NewRecord(clickData, t1, t2)
         IN [attributionData |-> Put(st.attributionData, mapKey, rec),
             localStorage |-> IF UseLocalStorage
                              THEN Put(st.localStorage, storageKey, JsonStringify(rec))
                              ELSE st.localStorage,
             cookies |-> IF UseLocalStorage THEN st.cookies
                         ELSE SetCookie(st.cookies, storageKey, JsonStringify(rec),
                                        ToUTCString(rec.expiresAt))]

\* _storeAttributionData(productRefId, clickData)
StoreAttributionData(st, productRefId, clickData, t1, t2) ==
    IF ~Truthy(session.customerId) \/ ~Truthy(productRefId) THEN st
    ELSE LET typeSuffix == Suffix(clickData.isSponsored)
             storageKey == StorageKey(session.customerId, productRefId, typeSuffix)
             mapKey == MapKey(productRefId, typeSuffix)
             rec == NewRecord(clickData, t1, t2)
         IN [attributionData |-> Put(st.attributionData, mapKey, rec),
             localStorage |-> IF UseLocalStorage /\ ~WriteThrows
                              THEN Put(st.localStorage, storageKey, JsonStringify(rec))
                              ELSE st.localStorage,
             cookies |-> IF UseLocalStorage \/ WriteThrows THEN st.cookies
                         ELSE SetCookie(st.cookies, storageKey, JsonStringify(rec),
                                        ToUTCString(rec.expiresAt))]

\* mutant of _storeAttributionData's try/catch: the error of the durable write is rethrown
StoreAttributionDataRethrows == WriteThrows

\* whether _storeAttributionData throws to its caller: nothing before its try can throw,
\* and its catch logs the error of the write and returns
StoreAttributionDataThrows == FALSE

\* mutant of _getAttributionDataFor: a record is taken as live up to and including expiresAt
GetAttributionDataForInclusive(st, productRefId, isSponsored) ==
    LET mapKey == MapKey(productRefId, Suffix(isSponsored))
        storageKey == StorageKey(session.customerId, productRefId, Suffix(isSponsored))
        cached == mapKey \in DOMAIN st.attributionData
    IN IF cached /\ st.attributionData[mapKey].expiresAt >= now
       THEN [st |-> st, result |-> st.attributionData[mapKey]]
       ELSE LET st1 == [st EXCEPT !.attributionData = Remove(@, mapKey)]
                storedData == IF UseLocalStorage
                              THEN GetItem(st1.localStorage, storageKey)
                              ELSE GetCookie(st1.cookies, storageKey)
            IN IF storedData = Null
               THEN [st |-> st1, result |-> Null]
               ELSE IF JsonParse(storedData).expiresAt >= now
                    THEN [st |-> [st1 EXCEPT !.attributionData =
                                      Put(@, mapKey, JsonParse(storedData))],
                          result |-> JsonParse(storedData)]
                    ELSE [st |-> CleanupExpiredAttributionData(st1, productRefId,
                                                               {isSponsored}),
                          result |-> Null]

\* _getAttributionDataFor(productRefId, isSponsored): the stores afterwards and the result
GetAttributionDataFor(st, productRefId, isSponsored) ==
    LET typeSuffix == Suffix(isSponsored)
        mapKey == MapKey(productRefId, typeSuffix)
        storageKey == StorageKey(session.customerId, productRefId, typeSuffix)
        cached == mapKey \in DOMAIN st.attributionData
    IN IF cached /\ st.attributionData[mapKey].expiresAt > now
       THEN [st |-> st, result |-> st.attributionData[mapKey]]
       ELSE LET st1 == [st EXCEPT !.attributionData = Remove(@, mapKey)]
                storedData == IF UseLocalStorage
                              THEN GetItem(st1.localStorage, storageKey)
                              ELSE GetCookie(st1.cookies, storageKey)
            IN IF ReadThrows \/ storedData = Null \/ ~Parses(storedData)
               THEN [st |-> st1, result |-> Null]
               ELSE LET parsed == JsonParse(storedData)
                    IN IF parsed.expiresAt > now
                       THEN [st |-> [st1 EXCEPT !.attributionData = Put(@, mapKey, parsed)],
                             result |-> parsed]
                       ELSE [st |-> CleanupExpiredAttributionData(st1, productRefId,
                                                                  {isSponsored}),
                             result |-> Null]

\* mutant of _getAttributionData: organic first, then sponsored
GetAttributionDataOrganicFirst(st, productRefId) ==
    IF ~Truthy(session.customerId) \/ ~Truthy(productRefId)
    THEN [st |-> st, result |-> Null]
    ELSE LET o == GetAttributionDataFor(st, productRefId, FALSE)
         IN IF o.result # Null THEN o
            ELSE GetAttributionDataFor(o.st, productRefId, TRUE)

\* _getAttributionData(productRefId): sponsored first, then organic
GetAttributionData(st, productRefId) ==
    IF ~Truthy(session.customerId) \/ ~Truthy(productRefId)
    THEN [st |-> st, result |-> Null]
    ELSE LET s == GetAttributionDataFor(st, productRefId, TRUE)
         IN IF s.result # Null THEN s
            ELSE GetAttributionDataFor(s.st, productRefId, FALSE)

\* mutant of _mergeAttributionData: the retail media fields are merged for every record
MergeAttributionDataAlways(eventData, a) ==
    LET merged == IdentFields \cup SponsoredFields
    IN [f \in (DOMAIN eventData \ merged) \cup {g \in merged : Get(a, g) # Undefined} |->
           IF f \in merged THEN a[f] ELSE eventData[f]]

\* mutant of _mergeAttributionData: the spread of eventData comes last, so that the
\* caller's values win over the record's
MergeAttributionDataCallerWins(eventData, a) ==
    LET isSponsored == "isSponsored" \in DOMAIN a /\ a.isSponsored = TRUE
        merged == IdentFields \cup (IF isSponsored THEN SponsoredFields ELSE {})
    IN [f \in DOMAIN eventData \cup {g \in merged : Get(a, g) # Undefined} |->
           IF f \in DOMAIN eventData THEN eventData[f] ELSE a[f]]

\* _mergeAttributionData(eventData, attributionData): the spread keeps eventData's other
\* properties; every merged property takes attributionData's value, undefined included
MergeAttributionData(eventData, a) ==
    LET isSponsored == "isSponsored" \in DOMAIN a /\ a.isSponsored = TRUE
        merged == IdentFields \cup (IF isSponsored THEN SponsoredFields ELSE {})
    IN [f \in (DOMAIN eventData \ merged) \cup {g \in merged : Get(a, g) # Undefined} |->
           IF f \in merged THEN a[f] ELSE eventData[f]]

ProductFields == {"refId", "quantity", "price", "routeId", "widgetId", "recommenderId",
                  "campaignId", "tacticId", "clickId", "referralUrl", "tacticLabel",
                  "retailBoostCollectionCampaignId", "adSetId", "adSetVersion",
                  "costPerClick", "costPerAction", "costPerMille", "timeStamp", "hmacSalt",
                  "hmac", "bannerId", "placementId"}

\* mutant of _enrichProductData: only the product's own fields are copied
EnrichProductDataBare(product) ==
    Literal([f \in {"refId", "quantity", "price"} |-> Get(product, f)])

\* _enrichProductData(product)
EnrichProductData(product) == Literal([f \in ProductFields |-> Get(product, f)])

\* mutant of _prepareProductWithAttribution: the record used is dropped from the stores
PrepareProductConsuming(st, product) ==
    LET r == GetAttributionData(st, Get(product, "refId"))
        baseProduct == EnrichProductData(product)
    IN [st |-> IF r.result # Null
               THEN CleanupExpiredAttributionData(r.st, Get(product, "refId"),
                                                  {r.result.isSponsored})
               ELSE r.st,
        product |-> IF r.result # Null THEN MergeAttributionData(baseProduct, r.result)
                    ELSE baseProduct,
        attributionData |-> r.result]

\* _prepareProductWithAttribution(product): the stores afterwards, the product, the record
PrepareProductWithAttribution(st, product) ==
    LET r == GetAttributionData(st, Get(product, "refId"))
        baseProduct == EnrichProductData(product)
    IN [st |-> r.st,
        product |-> IF r.result # Null THEN MergeAttributionData(baseProduct, r.result)
                    ELSE baseProduct,
        attributionData |-> r.result]

\* mutant of trackPurchase's loop: each record is consumed as soon as it has been used
RECURSIVE PrepareAllConsuming(_, _)
PrepareAllConsuming(st, products) ==
    IF products = <<>>
    THEN [st |-> st, products |-> <<>>, attributions |-> <<>>]
    ELSE LET head == PrepareProductWithAttribution(st, Head(products))
             used == IF head.attributionData # Null
                     THEN CleanupExpiredAttributionData(head.st, Get(Head(products), "refId"),
                                                        {head.attributionData.isSponsored})
                     ELSE head.st
             rest == PrepareAllConsuming(used, Tail(products))
         IN [st |-> rest.st,
             products |-> <<head.product>> \o rest.products,
             attributions |-> <<head.attributionData>> \o rest.attributions]

\* products.map / products.forEach over _prepareProductWithAttribution, left to right
RECURSIVE PrepareAll(_, _)
PrepareAll(st, products) ==
    IF products = <<>>
    THEN [st |-> st, products |-> <<>>, attributions |-> <<>>]
    ELSE LET head == PrepareProductWithAttribution(st, Head(products))
             rest == PrepareAll(head.st, Tail(products))
         IN [st |-> rest.st,
             products |-> <<head.product>> \o rest.products,
             attributions |-> <<head.attributionData>> \o rest.attributions]

\* trackPurchase's consumedAttribution: one {refId, isSponsored} per product that got a record
ConsumedAttribution(products, attributions) ==
    LET RECURSIVE Collect(_)
        Collect(i) ==
            IF i > Len(products) THEN <<>>
            ELSE (IF attributions[i] # Null
                  THEN <<[refId |-> Get(products[i], "refId"),
                          isSponsored |-> attributions[i].isSponsored]>>
                  ELSE <<>>) \o Collect(i + 1)
    IN Collect(1)

\* mutant of the consumption loop: isSponsored is not passed, so both channels are dropped
RECURSIVE CleanupAllChannels(_, _)
CleanupAllChannels(st, consumed) ==
    IF consumed = <<>> THEN st
    ELSE CleanupAllChannels(CleanupExpiredAttributionData(st, Head(consumed).refId,
                                                          {TRUE, FALSE}),
                            Tail(consumed))

\* consumedAttribution.forEach(item => _cleanupExpiredAttributionData(item.refId, item.isSponsored))
RECURSIVE CleanupAll(_, _)
CleanupAll(st, consumed) ==
    IF consumed = <<>> THEN st
    ELSE CleanupAll(CleanupExpiredAttributionData(st, Head(consumed).refId,
                                                  {Head(consumed).isSponsored}),
                    Tail(consumed))

----------------------------------------------------------------------------
(* Event queue *)

\* properties whose value is a nested (non-array) object
NestedFields == {"product"}

\* _cleanObject: undefined / null properties and empty nested objects are dropped
CleanObject(obj) ==
    [f \in {g \in DOMAIN obj : g \notin NestedFields \/ DOMAIN obj[g] # {}} |-> obj[f]]

\* _queueEvent(eventType, eventData)
QueueEvent(eventType, eventData) ==
    /\ pendingEvents' = Append(pendingEvents,
                               [type |-> eventType, data |-> CleanObject(eventData)])
    /\ eventBatchTimeout' = "pending"

----------------------------------------------------------------------------
(* Inputs of the public API *)

Products == {"p1", "p2"}

\* trackClick arguments.  For p1: an organic widget click, a widget click with an empty
\* adSetId, a sponsored click, a click with no context; a sponsored click for every other
\* product; and a click with no refId
ClickInputs ==
    {[refId |-> "p1", widgetId |-> "w1", campaignId |-> "cmp1", slot |-> "3"],
     [refId |-> "p1", widgetId |-> "w3", adSetId |-> ""],
     [refId |-> "p1"],
     [widgetId |-> "w1"]}
    \cup {[refId |-> p, widgetId |-> "w2", adSetId |-> "as1", costPerClick |-> "0.5",
           hmac |-> "h1", supplierId |-> "sup1"] : p \in Products}

PlainProduct(p) == [refId |-> p, quantity |-> "1", price |-> "9.99"]

\* products of checkout / purchase: a plain one, and one on which the caller set fields
ProductInputs ==
    {PlainProduct("p1")}
    \cup {[refId |-> "p1", quantity |-> "2", price |-> "5", campaignId |-> "cmpX",
           adSetId |-> "asX", hmac |-> "hX", clickId |-> "cX"]}

\* product lists: every single product, and the longer lists of plain products
ItemLists ==
    {<<p>> : p \in ProductInputs}
    \cup UNION {[1..n -> {PlainProduct(p) : p \in Products}] : n \in 2..MaxItems}

\* trackCheckout arguments
CheckoutInputs == {[products |-> ps] : ps \in ItemLists}

\* trackPurchase arguments
PurchaseInputs == {[orderId |-> "order-1", products |-> ps] : ps \in ItemLists}

\* trackAddToCart arguments: without clickId, and with clickId and manual attribution
AddToCartInputs ==
    {[product |-> PlainProduct("p1")]}
    \cup {[product |-> PlainProduct("p1"), clickId |-> "manual-click", widgetId |-> "wM",
           adSetId |-> "asM", costPerClick |-> "0.7"]}

\* _generateId(): a fresh id
GenerateId == "c" \o ToString(idsGenerated + 1)

----------------------------------------------------------------------------
(* Initial state: an SDK instance with an established session and empty stores *)

\* the fields of a freshly constructed instance that has the session s
NewInstance(s) == [session |-> s, attributionData |-> Empty, pendingEvents |-> <<>>,
                   eventBatchTimeout |-> "none"]

\* the proxy as its constructor leaves it: an empty token cache, no request yet
NewProxy == [tokenCache |-> Undefined, requests |-> <<>>]

NoHist == [owner |-> Empty, lastClick |-> Empty, spent |-> {}, respent |-> {}]

Init ==
    /\ now = 0
    /\ config \in {[storageType |-> t, attributionWindow |-> WindowTicks,
                    cookiePrefix |-> "pa_"] : t \in {"cookie", "localStorage"}}
    /\ session = [customerId |-> "u1", sessionId |-> "s1"]
    /\ attributionData = Empty
    /\ localStorage = Empty
    /\ cookies = Empty
    /\ pendingEvents = <<>>
    /\ eventBatchTimeout = "none"
    /\ idsGenerated = 0
    /\ consumedKeys = {}
    /\ purchasedRefs = {}
    /\ ret = [op |-> "init"]
    /\ storageFault = "none"
    /\ otherTab = NewInstance([customerId |-> "u1", sessionId |-> "s1"])
    /\ hist = NoHist
    /\ timerDue = 0
    /\ sends = <<>>
    /\ proxy = NewProxy

\* the instance's state before a call, kept in ret
Before == [attributionData |-> attributionData, localStorage |-> localStorage,
           cookies |-> cookies, pendingEvents |-> pendingEvents,
           eventBatchTimeout |-> eventBatchTimeout, now |-> now,
           consumedKeys |-> consumedKeys, purchasedRefs |-> purchasedRefs]

SetStores(st) ==
    /\ attributionData' = st.attributionData
    /\ localStorage' = st.localStorage
    /\ cookies' = st.cookies

----------------------------------------------------------------------------
(* Operations *)

\* mutant of trackClick's condition: every click on a product is stored
StoresAttributionForAnyProductClick(eventData) == Truthy(Get(eventData, "refId"))

\* trackClick's condition for storing attribution: a product reference and a widget or
\* ad-set context
StoresAttribution(eventData) ==
    Truthy(Get(eventData, "refId"))
    /\ (Truthy(Get(eventData, "widgetId")) \/ Truthy(Get(eventData, "adSetId")))

\* trackClick(eventData); d = the clock ticks between _storeAttributionData's two Date.now()
TrackClick(eventData, d) ==
    /\ idsGenerated < MaxClicks
    /\ Len(pendingEvents) < MaxQueue
    /\ now + d <= MaxTime
    /\ LET clickId == OrElse(Get(eventData, "clickId"), GenerateId)
           Val(f) == CASE f = "currentUrl" -> OrElse(Get(eventData, f), Href)
                       [] f = "eventTime" -> ISO(now)
                       [] f = "clickId" -> clickId
                       [] f = "actionType" -> OrElse(Get(eventData, f), "1")
                       [] f = "contextType" -> OrElse(Get(eventData, f), "1")
                       [] f = "referralUrl" -> OrElse(Get(eventData, f), Referrer)
                       [] OTHER -> Get(eventData, f)
           event == Literal([f \in ClickFields |-> Val(f)])
           refId == Get(eventData, "refId")
           stores == StoresAttribution(eventData)
           clickData == [event |-> event,
                         isSponsored |-> Truthy(Get(eventData, "adSetId"))
                                         /\ HasLength(Get(eventData, "adSetId"))]
           st == IF stores THEN StoreAttributionData(Stores, refId, clickData, now, now + d)
                 ELSE Stores
           threw == stores /\ StoreAttributionDataThrows
       IN /\ stores \/ d = 0
          /\ SetStores([st EXCEPT !.cookies = ExpireCookies(@, now + d)])
          /\ IF threw
             THEN UNCHANGED <<pendingEvents, eventBatchTimeout>>
             ELSE QueueEvent("clicks", event)
          /\ consumedKeys' = IF stores
                             THEN consumedKeys \ {[refId |-> refId,
                                                   isSponsored |-> clickData.isSponsored]}
                             ELSE consumedKeys
          /\ purchasedRefs' = purchasedRefs \ {refId}
          /\ ret' = [op |-> "trackClick", eventData |-> eventData, clickId |-> clickId,
                     stored |-> stores, isSponsored |-> clickData.isSponsored,
                     threw |-> threw, before |-> Before]
    /\ now' = now + d
    /\ idsGenerated' = idsGenerated + 1
    /\ UNCHANGED <<config, session>>

\* resolve: a call of _getAttributionData(productRefId)
Resolve(productRefId) ==
    /\ LET r == GetAttributionData(Stores, productRefId)
       IN /\ SetStores(r.st)
          /\ ret' = [op |-> "resolve", refId |-> productRefId, result |-> r.result,
                     threw |-> FALSE, before |-> Before]
    /\ UNCHANGED <<now, config, session, pendingEvents, eventBatchTimeout, idsGenerated,
                   consumedKeys, purchasedRefs>>

\* mutant of trackAddToCart's check: a missing click id is let through
AddToCartNeverThrows(lookup, attribution) == FALSE

\* trackAddToCart's check: no clickId was given and none could be resolved
AddToCartThrows(lookup, attribution) ==
    lookup /\ (attribution = Null \/ ~Truthy(Get(attribution, "clickId")))

\* trackAddToCart(eventData)
TrackAddToCart(eventData) ==
    /\ LET productRefId == Get(eventData.product, "refId")
           lookup == ~Truthy(Get(eventData, "clickId"))
           r == IF lookup THEN GetAttributionData(Stores, productRefId)
                ELSE [st |-> Stores, result |-> Null]
           throws == AddToCartThrows(lookup, r.result)
           a == r.result
           Val(f) == CASE f = "currentUrl" -> OrElse(Get(eventData, f), Href)
                       [] f = "eventTime" -> ISO(now)
                       [] f = "clickId" -> OrElse(Get(eventData, f), Get(a, f))
                       [] f = "referralUrl" ->
                            OrElse(Get(eventData, f),
                                   OrElse(Referrer,
                                          IF a # Null THEN Get(a, f) ELSE Undefined))
           baseEvent == Literal([f \in {"currentUrl", "eventTime", "clickId", "referralUrl"}
                                        |-> Val(f)])
                        @@ [product |-> Literal([f \in {"refId", "quantity", "price"}
                                                    |-> Get(eventData.product, f)])]
           event == IF a # Null THEN MergeAttributionData(baseEvent, a)
                    ELSE MergeAttributionData(baseEvent, eventData)
       IN /\ throws \/ Len(pendingEvents) < MaxQueue
          /\ SetStores(r.st)
          /\ IF throws
             THEN UNCHANGED <<pendingEvents, eventBatchTimeout>>
             ELSE QueueEvent("add-to-carts", event)
          /\ ret' = [op |-> "trackAddToCart", eventData |-> eventData, refId |-> productRefId,
                     attribution |-> a, threw |-> throws, before |-> Before]
    /\ UNCHANGED <<now, config, session, idsGenerated, consumedKeys, purchasedRefs>>

\* trackCheckout(eventData)
TrackCheckout(eventData) ==
    /\ Len(pendingEvents) < MaxQueue
    /\ LET prepared == PrepareAll(Stores, eventData.products)
           event == [currentUrl |-> Href, eventTime |-> ISO(now),
                     products |-> prepared.products]
       IN /\ SetStores(prepared.st)
          /\ QueueEvent("checkouts", event)
          /\ ret' = [op |-> "trackCheckout", eventData |-> eventData,
                     attributions |-> prepared.attributions, threw |-> FALSE,
                     before |-> Before]
    /\ UNCHANGED <<now, config, session, idsGenerated, consumedKeys, purchasedRefs>>

\* trackPurchase(eventData)
TrackPurchase(eventData) ==
    /\ Len(pendingEvents) < MaxQueue
    /\ LET prepared == PrepareAll(Stores, eventData.products)
           consumedAttribution == ConsumedAttribution(eventData.products,
                                                      prepared.attributions)
           event == [currentUrl |-> Href, eventTime |-> ISO(now),
                     orderId |-> eventData.orderId, products |-> prepared.products]
       IN /\ QueueEvent("purchases", event)
          /\ SetStores(CleanupAll(prepared.st, consumedAttribution))
          /\ ret' = [op |-> "trackPurchase", eventData |-> eventData,
                     attributions |-> prepared.attributions,
                     consumed |-> consumedAttribution, threw |-> FALSE,
                     before |-> Before]
          /\ consumedKeys' = consumedKeys \cup
                                 {consumedAttribution[i] : i \in DOMAIN consumedAttribution}
          /\ purchasedRefs' = purchasedRefs \cup
                                 {consumedAttribution[i].refId :
                                     i \in DOMAIN consumedAttribution}
    /\ UNCHANGED <<now, config, session, idsGenerated>>

\* the batch timer fires: _flushEvents() empties the queue and hands the batches to the
\* network
FlushEvents ==
    /\ eventBatchTimeout = "pending"
    /\ eventBatchTimeout' = "none"
    /\ pendingEvents' = <<>>
    /\ ret' = [op |-> "flush"]
    /\ UNCHANGED <<now, config, session, attributionData, localStorage, cookies,
                   idsGenerated, consumedKeys, purchasedRefs>>

\* the clock advances by one tick; the browser drops the cookies whose expiry has been
\* reached.  A tick is longer than the 100 ms of the batch timer, which has fired by then
Tick ==
    /\ now < MaxTime
    /\ eventBatchTimeout = "none"
    /\ now' = now + 1
    /\ cookies' = ExpireCookies(cookies, now + 1)
    /\ ret' = [op |-> "tick"]
    /\ UNCHANGED <<config, session, attributionData, localStorage, pendingEvents,
                   eventBatchTimeout, idsGenerated, consumedKeys, purchasedRefs>>

\* the page is reloaded while the stored session is valid: a new instance (constructor,
\* _initializeSession restoring the session) over the same durable storage.  ret keeps
\* what a resolve of each product would have returned just before
Restart ==
    /\ attributionData' = Empty
    /\ pendingEvents' = <<>>
    /\ eventBatchTimeout' = "none"
    /\ ret' = [op |-> "restart",
               resolvable |-> [p \in Products |-> GetAttributionData(Stores, p).result]]
    /\ UNCHANGED <<now, config, session, localStorage, cookies, idsGenerated,
                   consumedKeys, purchasedRefs>>

\* the storage keeps working, no other tab acts, no history is kept
OneInstance == UNCHANGED <<storageFault, otherTab, hist, timerDue, sends, proxy>>

\* one instance with an established session over working storage
Next ==
    \/ \E e \in ClickInputs, d \in 0..MaxSkew : TrackClick(e, d) /\ OneInstance
    \/ \E p \in Products : Resolve(p) /\ OneInstance
    \/ \E e \in AddToCartInputs : TrackAddToCart(e) /\ OneInstance
    \/ \E e \in CheckoutInputs : TrackCheckout(e) /\ OneInstance
    \/ \E e \in PurchaseInputs : TrackPurchase(e) /\ OneInstance
    \/ FlushEvents /\ OneInstance
    \/ Tick /\ OneInstance
    \/ Restart /\ OneInstance

Spec == Init /\ [][Next]_vars

----------------------------------------------------------------------------
(* History of clicks and purchases, kept by the specifications below *)

\* hist.owner: click id -> the session.customerId under which trackClick recorded it;
\* hist.lastClick: product -> the latest click tracked for it with a widget or ad-set
\* context (its id, channel, time of completion) that no purchase has consumed since;
\* hist.spent: the click ids of the records purchases were enriched with;
\* hist.respent: those among them a later purchase was enriched with again
HistStep ==
    hist' =
        CASE ret'.op = "trackClick" /\ ret'.stored ->
                 [hist EXCEPT !.owner = Put(@, ret'.clickId, session.customerId),
                              !.lastClick = Put(@, ret'.eventData.refId,
                                                [clickId |-> ret'.clickId,
                                                 isSponsored |-> ret'.isSponsored,
                                                 at |-> now'])]
          [] ret'.op = "trackPurchase" ->
                 LET used == {ret'.attributions[i].clickId :
                                 i \in {j \in DOMAIN ret'.attributions :
                                           ret'.attributions[j] # Null}}
                     refs == {ret'.consumed[i].refId : i \in DOMAIN ret'.consumed}
                 IN [hist EXCEPT !.lastClick = [p \in DOMAIN @ \ refs |-> @[p]],
                                 !.spent = @ \cup used,
                                 !.respent = @ \cup (used \cap hist.spent)]
          [] OTHER -> hist

----------------------------------------------------------------------------
(* An instance from its construction on: the session bootstrap and session rotation *)

Customers == {"u1", "u2"}

\* this.session as the constructor leaves it (the null ids read as undefined)
NoSession == [customerId |-> Undefined, sessionId |-> Undefined]

\* createSession: the config endpoint answered with the customer c
SessionCreated(c) ==
    /\ session.customerId # c
    /\ session' = [customerId |-> c, sessionId |-> "s1"]
    /\ ret' = [op |-> "createSession"]
    /\ UNCHANGED <<now, config, attributionData, localStorage, cookies, pendingEvents,
                   eventBatchTimeout, idsGenerated, consumedKeys, purchasedRefs>>

SessionClickInputs ==
    {[refId |-> "p1", widgetId |-> "w1", campaignId |-> "cmp1", slot |-> "3"],
     [refId |-> "p1", widgetId |-> "w2", adSetId |-> "as1", costPerClick |-> "0.5",
      hmac |-> "h1", supplierId |-> "sup1"]}

InitSession ==
    /\ now = 0
    /\ config \in {[storageType |-> t, attributionWindow |-> WindowTicks,
                    cookiePrefix |-> "pa_"] : t \in {"cookie", "localStorage"}}
    /\ session = NoSession
    /\ attributionData = Empty
    /\ localStorage = Empty
    /\ cookies = Empty
    /\ pendingEvents = <<>>
    /\ eventBatchTimeout = "none"
    /\ idsGenerated = 0
    /\ consumedKeys = {}
    /\ purchasedRefs = {}
    /\ ret = [op |-> "init"]
    /\ storageFault = "none"
    /\ otherTab = NewInstance(NoSession)
    /\ hist = NoHist
    /\ timerDue = 0
    /\ sends = <<>>
    /\ proxy = NewProxy

\* the storage keeps working and no other tab acts
Alone == HistStep /\ UNCHANGED <<storageFault, otherTab, timerDue, sends, proxy>>

NextSession ==
    \/ \E c \in Customers : SessionCreated(c) /\ Alone
    \/ \E e \in SessionClickInputs : TrackClick(e, 0) /\ Alone
    \/ Resolve("p1") /\ Alone
    \/ \E e \in PurchaseInputs : TrackPurchase(e) /\ Alone
    \/ FlushEvents /\ Alone
    \/ Tick /\ Alone

SpecSession == InitSession /\ [][NextSession]_vars

----------------------------------------------------------------------------
(* An instance over storage that fails or holds damaged entries *)

StorageFaults == {"none", "quota", "disabled"}

\* the browser's storage starts failing (quota reached, storage disabled) or works again
SetFault(f) ==
    /\ storageFault # f
    /\ storageFault' = f
    /\ ret' = [op |-> "fault"]
    /\ UNCHANGED <<now, config, session, attributionData, localStorage, cookies,
                   pendingEvents, eventBatchTimeout, idsGenerated, consumedKeys,
                   purchasedRefs, otherTab, hist, timerDue, sends, proxy>>

\* the value stored under the attribution key of (p, channel c) is damaged from outside
\* the SDK (truncated, overwritten): JSON.parse will reject it
CorruptEntry(p, c) ==
    /\ LET key == StorageKey(session.customerId, p, Suffix(c))
       IN IF UseLocalStorage
          THEN /\ key \in DOMAIN localStorage
               /\ localStorage[key] # Corrupt
               /\ localStorage' = [localStorage EXCEPT ![key] = Corrupt]
               /\ UNCHANGED cookies
          ELSE /\ key \in DOMAIN cookies
               /\ cookies[key].value # Corrupt
               /\ cookies' = [cookies EXCEPT ![key].value = Corrupt]
               /\ UNCHANGED localStorage
    /\ ret' = [op |-> "corrupt"]
    /\ UNCHANGED <<now, config, session, attributionData, pendingEvents,
                   eventBatchTimeout, idsGenerated, consumedKeys, purchasedRefs>>

NextFaults ==
    \/ \E f \in StorageFaults : SetFault(f)
    \/ \E c \in {TRUE, FALSE} : CorruptEntry("p1", c) /\ OneInstance
    \/ \E e \in SessionClickInputs : TrackClick(e, 0) /\ OneInstance
    \/ Resolve("p1") /\ OneInstance
    \/ \E e \in PurchaseInputs : TrackPurchase(e) /\ OneInstance
    \/ FlushEvents /\ OneInstance
    \/ Tick /\ OneInstance
    \/ Restart /\ OneInstance

SpecFaults == Init /\ [][NextFaults]_vars

----------------------------------------------------------------------------
(* Automatic click tracking: clicks on elements that carry data-pa-* attributes *)

\* the data-pa-* attribute name turned into a property name: the prefix is dropped and
\* every -x becomes X
AttributeKey(name) ==
    CASE name = "data-pa-track-click" -> "trackClick"
      [] name = "data-pa-ref-id" -> "refId"
      [] name = "data-pa-widget-id" -> "widgetId"
      [] name = "data-pa-ad-set-id" -> "adSetId"
      [] name = "data-pa-campaign-id" -> "campaignId"

\* the attribute values that are JSON numerals
JsonNumerals == {"77"}

\* JSON.parse(attr.value), the string itself when it is not JSON: a numeral becomes a
\* number, an identifier such as p1 or as1 stays a string
ParseAttributeValue(value) ==
    IF value \in JsonNumerals THEN "#" \o value ELSE value

\* _extractTrackingData(element); element = its data-pa-* attributes, name -> value
ExtractTrackingData(element) ==
    [key \in {AttributeKey(name) : name \in DOMAIN element} |->
        ParseAttributeValue(
            element[CHOOSE name \in DOMAIN element : AttributeKey(name) = key])]

\* the elements of the page with data-pa-track-click: an organic slot of a widget, a
\* sponsored slot whose ad set id is an identifier, a sponsored slot whose ad set id is
\* made of digits
Elements ==
    {[name \in {"data-pa-track-click", "data-pa-ref-id", "data-pa-widget-id",
                "data-pa-campaign-id"} |->
         CASE name = "data-pa-track-click" -> ""
           [] name = "data-pa-ref-id" -> "p1"
           [] name = "data-pa-widget-id" -> "w1"
           [] name = "data-pa-campaign-id" -> "cmp1"],
     [name \in {"data-pa-track-click", "data-pa-ref-id", "data-pa-widget-id",
                "data-pa-ad-set-id"} |->
         CASE name = "data-pa-track-click" -> ""
           [] name = "data-pa-ref-id" -> "p1"
           [] name = "data-pa-widget-id" -> "w2"
           [] name = "data-pa-ad-set-id" -> "as1"],
     [name \in {"data-pa-track-click", "data-pa-ref-id", "data-pa-ad-set-id"} |->
         CASE name = "data-pa-track-click" -> ""
           [] name = "data-pa-ref-id" -> "p1"
           [] name = "data-pa-ad-set-id" -> "77"]}

\* what the click listener of _setupClickTracking passes to trackClick
AutoClickInputs == {ExtractTrackingData(element) : element \in Elements}

NextAuto ==
    \/ \E e \in AutoClickInputs : TrackClick(e, 0) /\ OneInstance
    \/ \E e \in SessionClickInputs : TrackClick(e, 0) /\ OneInstance
    \/ Resolve("p1") /\ OneInstance
    \/ \E e \in PurchaseInputs : TrackPurchase(e) /\ OneInstance
    \/ FlushEvents /\ OneInstance
    \/ Tick /\ OneInstance
    \/ Restart /\ OneInstance

SpecAuto == Init /\ [][NextAuto]_vars

----------------------------------------------------------------------------
(* Consumption: purchases with several line items, and consume called on its own *)

\* consume: a call of _cleanupExpiredAttributionData(productRefId, isSponsored)
Consume(productRefId, isSponsored) ==
    /\ SetStores(CleanupExpiredAttributionData(Stores, productRefId, {isSponsored}))
    /\ ret' = [op |-> "consume", refId |-> productRefId, isSponsored |-> isSponsored,
               threw |-> FALSE, before |-> Before]
    /\ UNCHANGED <<now, config, session, pendingEvents, eventBatchTimeout, idsGenerated,
                   consumedKeys, purchasedRefs>>

\* clicks on p1 (organic, sponsored) and on p2 (sponsored)
ConsumeClickInputs ==
    SessionClickInputs
    \cup {[refId |-> "p2", widgetId |-> "w2", adSetId |-> "as1", costPerClick |-> "0.5",
           hmac |-> "h1", supplierId |-> "sup1"]}

\* purchases of one or two line items, the same product twice included
CartInputs ==
    {[orderId |-> "order-1", products |-> ps] :
        ps \in UNION {[1..n -> {PlainProduct(p) : p \in Products}] : n \in 1..2}}

NextConsume ==
    \/ \E e \in ConsumeClickInputs : TrackClick(e, 0) /\ OneInstance
    \/ \E p \in Products, c \in {TRUE, FALSE} : Consume(p, c) /\ OneInstance
    \/ \E e \in CartInputs : TrackPurchase(e) /\ OneInstance
    \/ \E p \in Products : Resolve(p) /\ OneInstance
    \/ FlushEvents /\ OneInstance
    \/ Tick /\ OneInstance

SpecConsume == Init /\ [][NextConsume]_vars

----------------------------------------------------------------------------
(* The stored session: page loads, session timeout, session extension *)

\* config.sessionDuration, in clock ticks
SessionTicks == 2

\* the storage keys of the session
SessionKey(field) == config.cookiePrefix \o field

\* parseInt of a stored timeout
ParseInt(str) == CHOOSE n \in 0..(MaxTime + SessionTicks) : ToString(n) = str

\* a stored session value: localStorage.getItem(key) / _getCookie(key) is not null
HasStored(key) ==
    IF UseLocalStorage THEN key \in DOMAIN localStorage
    ELSE key \in DOMAIN cookies /\ cookies[key].expires > now

StoredValue(key) == IF UseLocalStorage THEN localStorage[key] ELSE cookies[key].value

\* _getStoredSession(): the stored session, found = FALSE for null
GetStoredSession ==
    IF /\ HasStored(SessionKey("customer_id"))
       /\ HasStored(SessionKey("session_id"))
       /\ HasStored(SessionKey("session_timeout"))
       /\ Truthy(StoredValue(SessionKey("customer_id")))
       /\ Truthy(StoredValue(SessionKey("session_id")))
       /\ Truthy(StoredValue(SessionKey("session_timeout")))
    THEN [found |-> TRUE,
          customerId |-> StoredValue(SessionKey("customer_id")),
          sessionId |-> StoredValue(SessionKey("session_id")),
          sessionTimeout |-> ParseInt(StoredValue(SessionKey("session_timeout")))]
    ELSE [found |-> FALSE, customerId |-> Undefined, sessionId |-> Undefined,
          sessionTimeout |-> 0]

\* _storeSession() of the session s: the durable storage afterwards.  The cookies expire
\* at the session timeout
StoreSession(s) ==
    LET values == [f \in {"customer_id", "session_id", "session_timeout"} |->
                      CASE f = "customer_id" -> s.customerId
                        [] f = "session_id" -> s.sessionId
                        [] f = "session_timeout" -> ToString(s.sessionTimeout)]
        keys == {SessionKey(f) : f \in DOMAIN values}
        ValueOf(k) == values[CHOOSE f \in DOMAIN values : SessionKey(f) = k]
        expires == ToUTCString(s.sessionTimeout)
    IN IF UseLocalStorage
       THEN [localStorage |-> [k \in DOMAIN localStorage \cup keys |->
                                  IF k \in keys THEN ValueOf(k) ELSE localStorage[k]],
             cookies |-> cookies]
       ELSE [localStorage |-> localStorage,
             cookies |-> IF expires > now
                         THEN [k \in DOMAIN cookies \cup keys |->
                                  IF k \in keys
                                  THEN [value |-> ValueOf(k), expires |-> expires]
                                  ELSE cookies[k]]
                         ELSE [k \in DOMAIN cookies \ keys |-> cookies[k]]]

\* _extendSession(): the session s with its timeout moved to now + sessionDuration
ExtendSession(s) ==
    IF Truthy(s.sessionId) THEN [s EXCEPT !.sessionTimeout = now + SessionTicks] ELSE s

\* a page load: the constructor and _initializeSession.  A stored session that is still
\* valid is restored and extended; otherwise createSession asks the config endpoint for
\* a session, passing the stored customerId if there is one, and the endpoint answers
\* with that customer, or with the customer c when none was passed
Start(c) ==
    /\ LET storedSession == GetStoredSession
           restore == storedSession.found /\ storedSession.sessionTimeout > now
           requested == IF storedSession.found THEN storedSession.customerId
                        ELSE Undefined
           restored == [customerId |-> storedSession.customerId,
                        sessionId |-> storedSession.sessionId,
                        sessionTimeout |-> storedSession.sessionTimeout]
           created == [customerId |-> OrElse(requested, c),
                       sessionId |-> "s" \o ToString(now),
                       sessionTimeout |-> now + SessionTicks]
           s == ExtendSession(IF restore THEN restored ELSE created)
       IN /\ restore => c = "u1"    \* no request is made: the answer plays no part
          /\ session' = s
          /\ localStorage' = StoreSession(s).localStorage
          /\ cookies' = StoreSession(s).cookies
          /\ ret' = [op |-> "start", previous |-> session, created |-> ~restore,
                     requested |-> IF restore THEN Undefined ELSE requested]
    /\ attributionData' = Empty
    /\ pendingEvents' = <<>>
    /\ eventBatchTimeout' = "none"
    /\ UNCHANGED <<now, config, idsGenerated, consumedKeys, purchasedRefs>>

\* response.payload.session.duration of the config endpoint, in clock ticks: the duration
\* the SDK is configured with, or a longer one
ResponseDurations == {SessionTicks, SessionTicks + 1}

\* createSession(): the config endpoint answers with customer c and session duration d.
\* The session is set with the timeout now + d and stored; _extendSession() then sets the
\* timeout anew and stores the session again
CreateSession(c, d) ==
    /\ LET created == [customerId |-> c,
                       sessionId |-> "s" \o ToString(now),
                       sessionTimeout |-> now + d]
           s == ExtendSession(created)
       IN /\ session' = s
          /\ localStorage' = StoreSession(s).localStorage
          /\ cookies' = StoreSession(s).cookies
          /\ ret' = [op |-> "createSession", duration |-> d, at |-> now,
                     previous |-> session]
    /\ UNCHANGED <<now, config, attributionData, pendingEvents, eventBatchTimeout,
                   idsGenerated, consumedKeys, purchasedRefs>>

\* before the first page load: nothing is stored
InitLifecycle ==
    /\ now = 0
    /\ config \in {[storageType |-> t, attributionWindow |-> WindowTicks,
                    cookiePrefix |-> "pa_"] : t \in {"cookie", "localStorage"}}
    /\ session = [customerId |-> Undefined, sessionId |-> Undefined, sessionTimeout |-> 0]
    /\ attributionData = Empty
    /\ localStorage = Empty
    /\ cookies = Empty
    /\ pendingEvents = <<>>
    /\ eventBatchTimeout = "none"
    /\ idsGenerated = 0
    /\ consumedKeys = {}
    /\ purchasedRefs = {}
    /\ ret = [op |-> "init"]
    /\ storageFault = "none"
    /\ otherTab = NewInstance(NoSession)
    /\ hist = NoHist
    /\ timerDue = 0
    /\ sends = <<>>
    /\ proxy = NewProxy

NextLifecycle ==
    \/ \E c \in Customers : Start(c) /\ OneInstance
    \/ \E e \in SessionClickInputs : TrackClick(e, 0) /\ OneInstance
    \/ \E e \in AddToCartInputs : TrackAddToCart(e) /\ OneInstance
    \/ \E e \in CheckoutInputs : TrackCheckout(e) /\ OneInstance
    \/ \E e \in PurchaseInputs : TrackPurchase(e) /\ OneInstance
    \/ FlushEvents /\ OneInstance
    \/ Tick /\ OneInstance

SpecLifecycle == InitLifecycle /\ [][NextLifecycle]_vars

NextCreate ==
    \/ \E c \in Customers, d \in ResponseDurations : CreateSession(c, d) /\ OneInstance
    \/ \E e \in SessionClickInputs : TrackClick(e, 0) /\ OneInstance
    \/ FlushEvents /\ OneInstance
    \/ Tick /\ OneInstance

SpecCreate == InitLifecycle /\ [][NextCreate]_vars

----------------------------------------------------------------------------
(* Product page detection *)

\* the number of configured URL patterns, of configured meta selectors, of JSON-LD
\* scripts on a page and of items in a script
MaxSources == 2

\* the first non-empty string of seq from index i on, "" when there is none
RECURSIVE FirstYield(_, _)
FirstYield(seq, i) ==
    IF i > Len(seq) THEN ""
    ELSE IF seq[i] # "" THEN seq[i]
    ELSE FirstYield(seq, i + 1)

\* the loop over the items of one JSON-LD script: the sku, else the productID, of the
\* first item of type Product that has one
RECURSIVE FirstProduct(_, _)
FirstProduct(items, i) ==
    IF i > Len(items) THEN ""
    ELSE IF items[i].type = "Product" /\ items[i].sku # "" THEN items[i].sku
    ELSE IF items[i].type = "Product" /\ items[i].productID # "" THEN items[i].productID
    ELSE FirstProduct(items, i + 1)

\* the loop over the JSON-LD scripts; a script that does not parse is skipped
RECURSIVE FirstStructured(_, _)
FirstStructured(scripts, i) ==
    IF i > Len(scripts) THEN ""
    ELSE IF scripts[i].parses /\ FirstProduct(scripts[i].items, 1) # ""
         THEN FirstProduct(scripts[i].items, 1)
    ELSE FirstStructured(scripts, i + 1)

\* mutant of _detectProductId: the meta selectors are tried before the URL patterns
DetectProductIdMetaFirst(page) ==
    IF page.custom \notin {"none", "throws", ""} THEN page.custom
    ELSE IF FirstYield(page.meta, 1) # "" THEN FirstYield(page.meta, 1)
    ELSE IF FirstYield(page.url, 1) # "" THEN FirstYield(page.url, 1)
    ELSE FirstStructured(page.ldJson, 1)

\* _detectProductId(): the id, "" for null.  page.custom is what the custom extractor does
\* ("none": not configured, "throws", or the value returned, "" for a falsy one);
\* page.url[i] is match[1] of the i-th URL pattern on the page's URL, page.meta[i] the
\* content of the element of the i-th meta selector ("" when there is no match, no
\* element, no content); page.ldJson are the JSON-LD scripts
DetectProductId(page) ==
    IF page.custom \notin {"none", "throws", ""} THEN page.custom
    ELSE IF FirstYield(page.url, 1) # "" THEN FirstYield(page.url, 1)
    ELSE IF FirstYield(page.meta, 1) # "" THEN FirstYield(page.meta, 1)
    ELSE FirstStructured(page.ldJson, 1)

\* JSON-LD scripts: one that does not parse, one with no Product, Products with a sku, a
\* productID or both
Scripts ==
    {[parses |-> FALSE, items |-> <<>>],
     [parses |-> TRUE, items |-> <<[type |-> "Offer", sku |-> "idX", productID |-> ""]>>],
     [parses |-> TRUE, items |-> <<[type |-> "Product", sku |-> "", productID |-> "idP"],
                                   [type |-> "Product", sku |-> "idS", productID |-> ""]>>],
     [parses |-> TRUE, items |-> <<[type |-> "Product", sku |-> "idS2",
                                    productID |-> "idP2"]>>]}

\* the pages the SDK is loaded on
Pages ==
    [custom : {"none", "throws", "", "idC"},
     url : [1..MaxSources -> {"", "idU"}] \cup {<<"idU1", "idU2">>},
     meta : [1..MaxSources -> {"", "idM"}] \cup {<<"idM1", "idM2">>},
     ldJson : {<<>>} \cup {<<a>> : a \in Scripts}
              \cup {<<[parses |-> FALSE, items |-> <<>>], a>> : a \in Scripts}]

\* _detectAndTrackProductView() on the page: trackViewProduct({refId}) when an id is found
DetectAndTrackProductView(page) ==
    /\ LET productId == DetectProductId(page)
           event == [currentUrl |-> Href, eventTime |-> ISO(now), refId |-> productId,
                     referralUrl |-> Referrer]
       IN /\ productId # "" => Len(pendingEvents) < MaxQueue
          /\ IF productId # ""
             THEN QueueEvent("view-products", event)
             ELSE UNCHANGED <<pendingEvents, eventBatchTimeout>>
          /\ ret' = [op |-> "detect", page |-> page, productId |-> productId,
                     before |-> Before]
    /\ UNCHANGED <<now, config, session, attributionData, localStorage, cookies,
                   idsGenerated, consumedKeys, purchasedRefs>>

NextDetect ==
    \/ \E page \in Pages : DetectAndTrackProductView(page) /\ OneInstance
    \/ FlushEvents /\ OneInstance
    \/ Tick /\ OneInstance

SpecDetect == Init /\ [][NextDetect]_vars

----------------------------------------------------------------------------
(* An instance whose session is not established yet, over storage that holds records *)

\* a page load when no valid session is stored: the new instance has the null session of
\* the constructor until createSession is answered; durable storage is what it was
Reload ==
    /\ Truthy(session.customerId)
    /\ session' = NoSession
    /\ attributionData' = Empty
    /\ pendingEvents' = <<>>
    /\ eventBatchTimeout' = "none"
    /\ ret' = [op |-> "reload"]
    /\ UNCHANGED <<now, config, localStorage, cookies, idsGenerated, consumedKeys,
                   purchasedRefs>>

\* clicks on p1 (organic, sponsored) and a widget click with no refId
InertClickInputs == SessionClickInputs \cup {[widgetId |-> "w1"]}

\* product references passed to resolve and consume: p1 and the empty one
InertRefIds == {"p1", ""}

NextInert ==
    \/ SessionCreated("u1") /\ OneInstance
    \/ Reload /\ OneInstance
    \/ \E e \in InertClickInputs : TrackClick(e, 0) /\ OneInstance
    \/ \E p \in InertRefIds : Resolve(p) /\ OneInstance
    \/ \E p \in InertRefIds, c \in {TRUE, FALSE} : Consume(p, c) /\ OneInstance
    \/ FlushEvents /\ OneInstance
    \/ Tick /\ OneInstance

SpecInert == InitSession /\ [][NextInert]_vars

----------------------------------------------------------------------------
(* Two instances (tabs) of one customer over the same durable storage *)

\* the user turns to the other tab: its instance is the one that runs from now on.  The
\* 100 ms batch timer of the tab that is left has fired by then
SwitchTab ==
    /\ eventBatchTimeout = "none"
    /\ otherTab' = [session |-> session, attributionData |-> attributionData,
                    pendingEvents |-> pendingEvents,
                    eventBatchTimeout |-> eventBatchTimeout]
    /\ session' = otherTab.session
    /\ attributionData' = otherTab.attributionData
    /\ pendingEvents' = otherTab.pendingEvents
    /\ eventBatchTimeout' = otherTab.eventBatchTimeout
    /\ ret' = [op |-> "switchTab"]
    /\ UNCHANGED <<now, config, localStorage, cookies, idsGenerated, consumedKeys,
                   purchasedRefs, storageFault, hist, timerDue, sends, proxy>>

NextTabs ==
    \/ SwitchTab
    \/ \E e \in SessionClickInputs : TrackClick(e, 0) /\ Alone
    \/ Resolve("p1") /\ Alone
    \/ \E e \in CheckoutInputs : TrackCheckout(e) /\ Alone
    \/ \E e \in PurchaseInputs : TrackPurchase(e) /\ Alone
    \/ FlushEvents /\ Alone
    \/ Tick /\ Alone

SpecTabs == Init /\ [][NextTabs]_vars

----------------------------------------------------------------------------
(* The event queue, its batch timer and the sends of a flush *)

\* the 100 ms of the batch timer, in steps of 50 ms
TimerSteps == 2

MaxEvents == 4

BatchTypes == {"clicks", "view-products"}

\* the event a track call passes to _queueEvent: tag numbers the events in the order of
\* their _queueEvent calls and queuedAs keeps the type the event was queued under
TaggedEvent(eventType) == [tag |-> idsGenerated + 1, queuedAs |-> eventType]

\* a track call reaches _queueEvent(eventType, event): the event is pushed, the timer that
\* was pending is cleared and a new one is set to fire _flushEvents in 100 ms
QueueTrack(eventType) ==
    /\ idsGenerated < MaxEvents
    /\ QueueEvent(eventType, TaggedEvent(eventType))
    /\ timerDue' = TimerSteps
    /\ idsGenerated' = idsGenerated + 1
    /\ ret' = [op |-> "queueEvent", eventType |-> eventType, tag |-> idsGenerated + 1]
    /\ UNCHANGED <<now, config, session, attributionData, localStorage, cookies,
                   consumedKeys, purchasedRefs, sends>>

\* the keys of eventGroups in the order Object.entries lists them: the order in which a
\* type first occurs in the queue
RECURSIVE GroupTypes(_, _)
GroupTypes(queue, seen) ==
    IF queue = <<>> THEN <<>>
    ELSE IF Head(queue).type \in seen THEN GroupTypes(Tail(queue), seen)
    ELSE <<Head(queue).type>> \o GroupTypes(Tail(queue), seen \cup {Head(queue).type})

\* mutant of the grouping: every group holds the whole queue
EventsOfAnyType(queue, eventType) == [i \in 1..Len(queue) |-> queue[i].data]

\* eventGroups[type]: the data of the queued events of that type, in queue order
EventsOfType(queue, eventType) ==
    LET group == SelectSeq(queue, LAMBDA e : e.type = eventType)
    IN [i \in 1..Len(group) |-> group[i].data]

\* mutant of _sendEvents: the session is not checked
SendEventsWithoutSessionCheck(eventType, events) ==
    [eventType |-> eventType, events |-> events,
     payload |-> [customerId |-> session.customerId, sessionId |-> session.sessionId,
                  events |-> events],
     request |-> "inFlight"]

\* _sendEvents(eventType, events) up to its await: without a customerId or a sessionId it
\* returns and nothing is posted, else the payload is posted and the request is in flight
SendEvents(eventType, events) ==
    IF ~Truthy(session.customerId) \/ ~Truthy(session.sessionId)
    THEN [eventType |-> eventType, events |-> events, payload |-> Null,
          request |-> "none"]
    ELSE [eventType |-> eventType, events |-> events,
          payload |-> [customerId |-> session.customerId,
                       sessionId |-> session.sessionId, events |-> events],
          request |-> "inFlight"]

\* the batch timer fires: _flushEvents() up to its await.  The queue is grouped by type
\* and cleared, and _sendEvents is called for each group
FlushAndSend ==
    /\ eventBatchTimeout = "pending"
    /\ timerDue = 0
    /\ eventBatchTimeout' = "none"
    /\ IF pendingEvents = <<>>
       THEN UNCHANGED <<pendingEvents, sends>>
       ELSE LET types == GroupTypes(pendingEvents, {})
            IN /\ pendingEvents' = <<>>
               /\ sends' = sends \o [i \in 1..Len(types) |->
                                        SendEvents(types[i],
                                                   EventsOfType(pendingEvents, types[i]))]
    /\ ret' = [op |-> "flush", before |-> [pendingEvents |-> pendingEvents,
                                          sends |-> sends, session |-> session]]
    /\ UNCHANGED <<now, config, session, attributionData, localStorage, cookies,
                   idsGenerated, consumedKeys, purchasedRefs, timerDue>>

\* the request of the i-th call is answered, or fails: _sendEvents logs, and rethrows the
\* failure to _flushEvents, which logs it
Response(i, ok) ==
    /\ sends[i].request = "inFlight"
    /\ sends' = [sends EXCEPT ![i].request = IF ok THEN "ok" ELSE "failed"]
    /\ ret' = [op |-> "response"]
    /\ UNCHANGED <<now, config, session, attributionData, localStorage, cookies,
                   pendingEvents, eventBatchTimeout, idsGenerated, consumedKeys,
                   purchasedRefs, timerDue>>

\* 50 ms pass while the batch timer is running
Elapse ==
    /\ timerDue > 0
    /\ timerDue' = timerDue - 1
    /\ ret' = [op |-> "elapse"]
    /\ UNCHANGED <<now, config, session, attributionData, localStorage, cookies,
                   pendingEvents, eventBatchTimeout, idsGenerated, consumedKeys,
                   purchasedRefs, sends>>

\* the steps of the queue leave the rest alone
Batching == UNCHANGED <<storageFault, otherTab, hist, proxy>>

NextBatch ==
    \/ SessionCreated("u1") /\ OneInstance
    \/ \E t \in BatchTypes : QueueTrack(t) /\ Batching
    \/ FlushAndSend /\ Batching
    \/ \E i \in DOMAIN sends, ok \in BOOLEAN : Response(i, ok) /\ Batching
    \/ Elapse /\ Batching

SpecBatch == InitSession /\ [][NextBatch]_vars

\* one more event is passed to _queueEvent while the queue holds events, after the
\* MaxEvents events the queue keeps track of: the timer is cleared and set anew
QueueFurther ==
    /\ idsGenerated = MaxEvents
    /\ pendingEvents # <<>>
    /\ eventBatchTimeout' = "pending"
    /\ timerDue' = TimerSteps
    /\ ret' = [op |-> "queueEvent", eventType |-> "clicks", tag |-> 0]
    /\ UNCHANGED <<now, config, session, attributionData, localStorage, cookies,
                   pendingEvents, idsGenerated, consumedKeys, purchasedRefs, sends>>

NextBatchFair ==
    \/ SessionCreated("u1") /\ OneInstance
    \/ \E t \in BatchTypes : QueueTrack(t) /\ Batching
    \/ QueueFurther /\ Batching
    \/ FlushAndSend /\ Batching
    \/ \E i \in DOMAIN sends, ok \in BOOLEAN : Response(i, ok) /\ Batching
    \/ Elapse /\ Batching

\* time passes, and a timer that is due fires
SpecBatchFair ==
    /\ InitSession
    /\ [][NextBatchFair]_vars
    /\ WF_vars(Elapse /\ Batching)
    /\ WF_vars(FlushAndSend /\ Batching)

----------------------------------------------------------------------------
(* The backend proxy: POST /3.0/events/:eventType *)

MaxRequests == 3

\* validEventTypes of handleEvents
ValidEventTypes == {"view-products", "clicks", "add-to-carts", "checkouts", "purchases",
                    "search-terms", "slot-impressions"}

\* the event types of the requests: two of the valid ones and two that are not
RequestedEventTypes == {"clicks", "purchases", "page-views", "Clicks"}

\* handleEvents from the point where it holds a token: a request with a type that is not
\* valid is answered with 400, any other is forwarded to the PA API and awaits the answer
Validated(request) ==
    IF request.eventType \notin ValidEventTypes
    THEN [request EXCEPT !.pc = "done", !.status = 400]
    ELSE [request EXCEPT !.pc = "forward", !.forwarded = TRUE]

\* a request POST /3.0/events/<eventType> arrives: handleEvents calls getAuthToken, which
\* returns the cached token if there is one and else requests a new one and awaits it
HandleEvents(eventType) ==
    /\ Len(proxy.requests) < MaxRequests
    /\ LET request == [eventType |-> eventType, pc |-> "token", status |-> 0,
                       forwarded |-> FALSE]
       IN proxy' = [proxy EXCEPT !.requests =
                        Append(@, IF Truthy(proxy.tokenCache) THEN Validated(request)
                                  ELSE request)]

\* the token request of the i-th request is answered: the token is cached and handleEvents
\* goes on; or it fails: getAuthToken throws Error('Authentication failed'), which has
\* neither a response nor a request, and handleError answers with 500
TokenResponse(i, ok) ==
    /\ proxy.requests[i].pc = "token"
    /\ proxy' = IF ok
                THEN [tokenCache |-> "token",
                      requests |-> [proxy.requests EXCEPT ![i] = Validated(@)]]
                ELSE [proxy EXCEPT !.requests[i].pc = "done",
                                   !.requests[i].status = 500]

\* what a forwarded request meets: an answer of the PA API (200), an error answer of the
\* PA API (401), or no answer
ApiOutcomes == {"answer", "errorAnswer", "noAnswer"}

\* the forwarded request ends: the proxy answers with the status of the PA API's answer,
\* or through handleError with the status of its error answer, or with 503
ApiResponse(i, outcome) ==
    /\ proxy.requests[i].pc = "forward"
    /\ proxy' = [proxy EXCEPT !.requests[i].pc = "done",
                              !.requests[i].status =
                                  CASE outcome = "answer" -> 200
                                    [] outcome = "errorAnswer" -> 401
                                    [] outcome = "noAnswer" -> 503]

\* the cached token reaches its TTL (stdTTL) and is dropped from the cache
TokenExpires ==
    /\ Truthy(proxy.tokenCache)
    /\ proxy' = [proxy EXCEPT !.tokenCache = Undefined]

\* the proxy runs on the server: the SDK instance is left alone
ProxyOnly ==
    UNCHANGED <<now, config, session, attributionData, localStorage, cookies,
                pendingEvents, eventBatchTimeout, idsGenerated, consumedKeys,
                purchasedRefs, ret, storageFault, otherTab, hist, timerDue, sends>>

NextProxy ==
    \/ \E t \in RequestedEventTypes : HandleEvents(t) /\ ProxyOnly
    \/ \E i \in DOMAIN proxy.requests, ok \in BOOLEAN : TokenResponse(i, ok) /\ ProxyOnly
    \/ \E i \in DOMAIN proxy.requests, o \in ApiOutcomes : ApiResponse(i, o) /\ ProxyOnly
    \/ TokenExpires /\ ProxyOnly

SpecProxy == Init /\ [][NextProxy]_vars

----------------------------------------------------------------------------
(* Customer ids and product references that contain the separator of the keys *)

\* ids are arbitrary strings: the code does not restrict or escape them
KeyCustomers == {"a", "a_b"}

KeyProducts == {"c", "b_c"}

\* a sponsored click on each product; the widget names the product that was clicked
KeyClickInputs == {[refId |-> p, widgetId |-> "w_" \o p, adSetId |-> "as1"] : p \in KeyProducts}

NextKeys ==
    \/ \E c \in KeyCustomers : (session = NoSession /\ SessionCreated(c)) /\ Alone
    \/ Reload /\ Alone
    \/ \E e \in KeyClickInputs : TrackClick(e, 0) /\ Alone
    \/ \E p \in KeyProducts : Resolve(p) /\ Alone
    \/ FlushEvents /\ Alone
    \/ Tick /\ Alone

SpecKeys == InitSession /\ [][NextKeys]_vars

----------------------------------------------------------------------------
(* Vocabulary of the properties: what a store holds, read without side effects *)

Channels == {TRUE, FALSE}

\* the record the cache of store st holds for (p, channel c), or Null
CachedRecord(st, p, c) == Lookup(st.attributionData, MapKey(p, Suffix(c)))

\* the record durable storage of st holds for (session customer, p, c) and a read at
\* time t can see, or Null
DurableRecord(st, p, c, t) ==
    LET key == StorageKey(session.customerId, p, Suffix(c))
    IN IF UseLocalStorage
       THEN (IF key \in DOMAIN st.localStorage THEN st.localStorage[key].json ELSE Null)
       ELSE (IF key \in DOMAIN st.cookies /\ st.cookies[key].expires > t
             THEN st.cookies[key].value.json ELSE Null)

\* the records of (p, c) in st, cached or durable
Records(st, p, c, t) == {CachedRecord(st, p, c), DurableRecord(st, p, c, t)} \ {Null}

LiveRecords(st, p, c, t) == {r \in Records(st, p, c, t) : r.expiresAt > t}

ExpiredRecords(st, p, c, t) == {r \in Records(st, p, c, t) : r.expiresAt <= t}

\* nothing is held for (p, c): neither in the cache nor under the durable key
Absent(st, p, c) ==
    /\ MapKey(p, Suffix(c)) \notin DOMAIN st.attributionData
    /\ StorageKey(session.customerId, p, Suffix(c)) \notin DOMAIN st.localStorage
    /\ StorageKey(session.customerId, p, Suffix(c)) \notin DOMAIN st.cookies

\* the entries of (p, c) are the same in stores a and b (cookies: those unexpired now)
SameEntries(a, b, p, c) ==
    /\ Lookup(a.attributionData, MapKey(p, Suffix(c)))
         = Lookup(b.attributionData, MapKey(p, Suffix(c)))
    /\ Lookup(a.localStorage, StorageKey(session.customerId, p, Suffix(c)))
         = Lookup(b.localStorage, StorageKey(session.customerId, p, Suffix(c)))
    /\ Lookup(ExpireCookies(a.cookies, now), StorageKey(session.customerId, p, Suffix(c)))
         = Lookup(ExpireCookies(b.cookies, now), StorageKey(session.customerId, p, Suffix(c)))

LastQueued == pendingEvents[Len(pendingEvents)]

----------------------------------------------------------------------------
(* Properties *)

\* C1: resolve (_getAttributionData) with a non-empty customerId returns the live
\* sponsored record of the product when one exists, also when a live organic record
\* exists; the live organic record only when no live sponsored record exists; and none
\* only when neither channel holds a live record.  The result is one stored record,
\* never a mix of the two.
C1_ResolvePriority ==
    ret.op = "resolve" =>
        LET b == ret.before
            S == LiveRecords(b, ret.refId, TRUE, b.now)
            O == LiveRecords(b, ret.refId, FALSE, b.now)
        IN /\ Truthy(session.customerId)
           /\ Cardinality(S) <= 1 /\ Cardinality(O) <= 1
           /\ S # {} => ret.result \in S /\ ret.result.isSponsored
           /\ (S = {} /\ O # {}) => ret.result \in O /\ ~ret.result.isSponsored
           /\ (S = {} /\ O = {}) => ret.result = Null

\* a resolve that found both channels live and returned the sponsored record
C1_Witness ==
    /\ ret.op = "resolve"
    /\ LiveRecords(ret.before, ret.refId, TRUE, ret.before.now) # {}
    /\ LiveRecords(ret.before, ret.refId, FALSE, ret.before.now) # {}
    /\ ret.result # Null
    /\ ret.result.isSponsored

\* C2 as stated: a record with expiresAt <= now is never returned by resolve, and after
\* the resolve that record is absent from the cache and from durable storage, whichever
\* channel it belongs to.
C2_ExpiredAlwaysDeleted ==
    ret.op = "resolve" =>
        \A c \in Channels :
            \A r \in ExpiredRecords(ret.before, ret.refId, c, ret.before.now) :
                ret.result # r /\ Absent(Stores, ret.refId, c)

\* C2 amended: a record with expiresAt <= now (the boundary included) is never returned by
\* resolve, for either backend; after the resolve an expired sponsored record is absent
\* from cache and durable storage, and so is an expired organic record unless the resolve
\* returned a live sponsored record (the organic channel is then not read).
C2_ExpiredDeletedWhenRead ==
    ret.op = "resolve" =>
        /\ ret.result # Null => ret.result.expiresAt > ret.before.now
        /\ \A c \in Channels :
              \A r \in ExpiredRecords(ret.before, ret.refId, c, ret.before.now) :
                  /\ ret.result # r
                  /\ (c \/ ret.result = Null \/ ~ret.result.isSponsored)
                        => Absent(Stores, ret.refId, c)

\* a resolve that met a record expiring exactly now, in the cache and in durable storage,
\* and returned none
C2_Witness ==
    /\ ret.op = "resolve"
    /\ ret.result = Null
    /\ \E c \in Channels :
          /\ CachedRecord(ret.before, ret.refId, c) # Null
          /\ CachedRecord(ret.before, ret.refId, c).expiresAt = ret.before.now
          /\ UseLocalStorage =>
                DurableRecord(ret.before, ret.refId, c, ret.before.now) # Null

\* the (refId, channel) key of the record used for the i-th product of the last checkout /
\* purchase
UsedKey(i) == [refId |-> Get(ret.eventData.products[i], "refId"),
               isSponsored |-> ret.attributions[i].isSponsored]

\* C3: once a purchase has enriched a product with a resolved record of channel c and
\* queued the event, no record is held for (product, c), in the cache or in durable
\* storage, and a resolve of that channel finds none, until a click is recorded again
\* for that product and channel.
C3_ConsumedStaysGone ==
    /\ \A k \in consumedKeys :
          /\ Absent(Stores, k.refId, k.isSponsored)
          /\ GetAttributionDataFor(Stores, k.refId, k.isSponsored).result = Null
    /\ ret.op = "trackPurchase" =>
          /\ LastQueued.type = "purchases"
          /\ \A i \in DOMAIN ret.attributions :
                ret.attributions[i] # Null =>
                    /\ ret.attributions[i] \in
                          LiveRecords(ret.before, UsedKey(i).refId, UsedKey(i).isSponsored,
                                      ret.before.now)
                    /\ UsedKey(i) \in consumedKeys

\* a resolve, after a purchase consumed the product's record, that returns none
C3_Witness ==
    /\ ret.op = "resolve"
    /\ ret.result = Null
    /\ \E k \in consumedKeys : k.refId = ret.refId

\* C4 as stated: once a purchase used stored attribution for a product, and with no
\* trackClick for the product since, a later trackPurchase enriches the product with no
\* stored attribution and a later trackAddToCart without clickId throws.
C4_NewClickRequired ==
    /\ ret.op = "trackPurchase" =>
          \A i \in DOMAIN ret.attributions :
              Get(ret.eventData.products[i], "refId") \in ret.before.purchasedRefs
                  => ret.attributions[i] = Null
    /\ (/\ ret.op = "trackAddToCart"
        /\ ~Truthy(Get(ret.eventData, "clickId"))
        /\ ret.refId \in ret.before.purchasedRefs) => ret.threw

\* C5: a purchase of a product that has a live sponsored and a live organic record uses
\* the sponsored record and deletes it, and leaves the organic record as it was, in the
\* cache and in durable storage, where a resolve finds it afterwards.
C5_OnlyUsedChannelConsumed ==
    ret.op = "trackPurchase" =>
        \A i \in DOMAIN ret.attributions :
            LET p == Get(ret.eventData.products[i], "refId")
                b == ret.before
                S == LiveRecords(b, p, TRUE, b.now)
                O == LiveRecords(b, p, FALSE, b.now)
            IN (S # {} /\ O # {}) =>
                  /\ ret.attributions[i] \in S
                  /\ Absent(Stores, p, TRUE)
                  /\ SameEntries(b, Stores, p, FALSE)
                  /\ GetAttributionData(Stores, p).result \in O

\* a purchase of a product with both records live: the sponsored one is gone, the organic
\* one is held in the cache and in durable storage
C5_Witness ==
    /\ ret.op = "trackPurchase"
    /\ \E i \in DOMAIN ret.attributions :
          LET p == Get(ret.eventData.products[i], "refId")
          IN /\ LiveRecords(ret.before, p, TRUE, ret.before.now) # {}
             /\ CachedRecord(ret.before, p, FALSE) # Null
             /\ Absent(Stores, p, TRUE)
             /\ CachedRecord(Stores, p, FALSE) # Null
             /\ DurableRecord(Stores, p, FALSE, now) # Null

\* C6: trackAddToCart without clickId, while the product has no live record in either
\* channel, throws; no event is appended to the pending queue and the batch timer is
\* left as it was.
C6_AddToCartThrowsWithoutAttribution ==
    (/\ ret.op = "trackAddToCart"
     /\ ~Truthy(Get(ret.eventData, "clickId"))
     /\ LiveRecords(ret.before, ret.refId, TRUE, ret.before.now) = {}
     /\ LiveRecords(ret.before, ret.refId, FALSE, ret.before.now) = {})
    => /\ ret.threw
       /\ pendingEvents = ret.before.pendingEvents
       /\ eventBatchTimeout = ret.before.eventBatchTimeout

\* a trackAddToCart that threw while an event was pending and the batch timer running
C6_Witness ==
    /\ ret.op = "trackAddToCart"
    /\ ret.threw
    /\ ret.before.pendingEvents # <<>>
    /\ ret.before.eventBatchTimeout = "pending"
    /\ Records(ret.before, ret.refId, FALSE, ret.before.now) # {}

\* C7: trackAddToCart without clickId, while a live record is resolvable, queues an
\* add-to-cart event whose clickId is that of the resolved record (sponsored preferred)
\* and which carries the record's sponsored-only fields exactly when the record is
\* sponsored.
C7_AddToCartUsesResolvedRecord ==
    (/\ ret.op = "trackAddToCart"
     /\ ~Truthy(Get(ret.eventData, "clickId"))
     /\ \E c \in Channels : LiveRecords(ret.before, ret.refId, c, ret.before.now) # {})
    => LET S == LiveRecords(ret.before, ret.refId, TRUE, ret.before.now)
           O == LiveRecords(ret.before, ret.refId, FALSE, ret.before.now)
           expected == IF S # {} THEN CHOOSE r \in S : TRUE ELSE CHOOSE r \in O : TRUE
       IN /\ ~ret.threw
          /\ pendingEvents = Append(ret.before.pendingEvents, LastQueued)
          /\ LastQueued.type = "add-to-carts"
          /\ LastQueued.data.product.refId = ret.refId
          /\ LastQueued.data.clickId = expected.clickId
          /\ \A f \in SponsoredFields :
                IF expected.isSponsored
                THEN Get(LastQueued.data, f) = Get(expected, f)
                ELSE f \notin DOMAIN LastQueued.data

\* an add-to-cart enriched from a sponsored record while an organic one was live too
C7_Witness ==
    /\ ret.op = "trackAddToCart"
    /\ ~Truthy(Get(ret.eventData, "clickId"))
    /\ ~ret.threw
    /\ LiveRecords(ret.before, ret.refId, FALSE, ret.before.now) # {}
    /\ ret.attribution.isSponsored
    /\ Get(LastQueued.data, "adSetId") = "as1"
    /\ Get(LastQueued.data, "hmac") = "h1"

\* C8 as stated: a product enriched with an organic record in checkout or purchase
\* contains none of the sponsored-only fields, whatever the caller supplied on it.
C8_OrganicProductHasNoSponsoredFields ==
    ret.op \in {"trackCheckout", "trackPurchase"} =>
        \A i \in DOMAIN ret.attributions :
            (ret.attributions[i] # Null /\ ~ret.attributions[i].isSponsored)
                => DOMAIN LastQueued.data.products[i] \cap SponsoredFields = {}

\* C9: a record call leaves, under its key, one record that holds the data of that click
\* only (clickId and every field), in the cache and in durable storage, also when a
\* record of an earlier click was held there; a resolve of the channel returns it.
C9_SecondClickOverwrites ==
    (ret.op = "trackClick" /\ ret.stored) =>
        LET p == ret.eventData.refId
            c == ret.isSponsored
            rec == CachedRecord(Stores, p, c)
        IN /\ rec # Null
           /\ DurableRecord(Stores, p, c, now) = rec
           /\ DOMAIN rec \subseteq RecordFields \cup {"isSponsored", "storedAt", "expiresAt"}
           /\ rec.clickId = ret.clickId
           /\ \A f \in RecordFields : Get(rec, f) = Get(LastQueued.data, f)
           /\ \A f \in IdentFields \cup SponsoredFields \cup {"slot", "clickPosition"} :
                 Get(rec, f) = Get(ret.eventData, f)
           /\ rec.isSponsored = c
           /\ rec.storedAt = ret.before.now
           /\ GetAttributionDataFor(Stores, p, c).result = rec

\* a click recorded over the record of an earlier click that carried a campaignId the new
\* click lacks
C9_Witness ==
    /\ ret.op = "trackClick"
    /\ ret.stored
    /\ LET old == CachedRecord(ret.before, ret.eventData.refId, ret.isSponsored)
       IN /\ old # Null
          /\ old.clickId # ret.clickId
          /\ Get(old, "campaignId") = "cmp1"
          /\ DurableRecord(ret.before, ret.eventData.refId, ret.isSponsored,
                           ret.before.now) = old
    /\ Get(CachedRecord(Stores, ret.eventData.refId, ret.isSponsored), "campaignId")
          = Undefined

\* C10: recording a click in one channel leaves every other (product, channel) entry, the
\* other channel of the same product included, as it was in the cache and in durable
\* storage.
C10_OtherChannelUntouched ==
    (ret.op = "trackClick" /\ ret.stored) =>
        \A q \in Products, c \in Channels :
            (q # ret.eventData.refId \/ c # ret.isSponsored)
                => SameEntries(ret.before, Stores, q, c)

\* a click recorded in one channel while the other channel of the product held a record
C10_Witness ==
    /\ ret.op = "trackClick"
    /\ ret.stored
    /\ CachedRecord(ret.before, ret.eventData.refId, ~ret.isSponsored) # Null
    /\ DurableRecord(Stores, ret.eventData.refId, ~ret.isSponsored, now) # Null
    /\ CachedRecord(Stores, ret.eventData.refId, ret.isSponsored) # Null

\* C11 as stated: whatever resolve returns was recorded by a click tracked under the
\* customerId the session has at the resolve; a record of an earlier customerId is never
\* returned, also not by the instance whose cache still holds it.
C11_OldCustomerUnreachable ==
    (ret.op = "resolve" /\ ret.result # Null) =>
        hist.owner[ret.result.clickId] = session.customerId

\* C12 as stated: when the latest click tracked for a product with a widget or ad-set
\* context has not been consumed by a purchase and its attribution window has not
\* elapsed, a resolve of the product returns the record of that click, or the live
\* sponsored record when the click was organic, at whatever point of the instance's
\* lifetime the click was tracked.
C12_ClickVisibleToResolve ==
    (/\ ret.op = "resolve"
     /\ ret.refId \in DOMAIN hist.lastClick
     /\ now < hist.lastClick[ret.refId].at + config.attributionWindow) =>
        /\ ret.result # Null
        /\ \/ ret.result.clickId = hist.lastClick[ret.refId].clickId
           \/ ret.result.isSponsored /\ ~hist.lastClick[ret.refId].isSponsored

\* C13: record never fails the caller.  Whatever the durable write does (it succeeds, it
\* throws because the quota is exceeded or the storage is disabled), a trackClick does not
\* throw and has appended its click event to the pending queue.
C13_RecordNeverFailsCaller ==
    ret.op = "trackClick" =>
        /\ ~ret.threw
        /\ pendingEvents = Append(ret.before.pendingEvents, LastQueued)
        /\ LastQueued.type = "clicks"
        /\ LastQueued.data.clickId = ret.clickId

\* a click whose record could not be written (quota exceeded): its event is queued and
\* durable storage does not hold its record
C13_Witness ==
    /\ ret.op = "trackClick"
    /\ ret.stored
    /\ storageFault = "quota"
    /\ WriteThrows
    /\ ~ret.threw
    /\ LastQueued.type = "clicks"
    /\ LastQueued.data.clickId = ret.clickId
    /\ StorageKey(session.customerId, ret.eventData.refId, Suffix(ret.isSponsored))
           \notin DOMAIN localStorage

\* C14 as stated: a storage failure makes the operation a no-op or a miss.  When the
\* durable write throws during record, the store is as it was before the call: neither
\* the cache nor durable storage holds the new record and a following resolve does not
\* return it.  When the durable read throws during resolve, the channel read counts as
\* holding no record (only a record the cache already held can be returned) and nothing
\* is thrown.
C14_StorageFailureIsNoOpOrMiss ==
    /\ (ret.op = "trackClick" /\ ret.stored /\ WriteThrows) =>
           LET p == ret.eventData.refId
               r == GetAttributionData(Stores, p).result
           IN /\ attributionData = ret.before.attributionData
              /\ localStorage = ret.before.localStorage
              /\ cookies = ExpireCookies(ret.before.cookies, now)
              /\ r = Null \/ r.clickId # ret.clickId
    /\ (ret.op = "resolve" /\ ReadThrows) =>
           /\ ~ret.threw
           /\ ret.result # Null =>
                  ret.result = CachedRecord(ret.before, ret.refId, ret.result.isSponsored)

\* the string durable storage of st holds under the key of (session customer, p, c) that
\* a read at time t gets, or Null
StoredString(st, p, c, t) ==
    LET key == StorageKey(session.customerId, p, Suffix(c))
    IN IF UseLocalStorage
       THEN Lookup(st.localStorage, key)
       ELSE (IF key \in DOMAIN st.cookies /\ st.cookies[key].expires > t
             THEN st.cookies[key].value ELSE Null)

\* the resolve in ret read channel c from durable storage: the cache held no live record
\* of c, and c is the sponsored channel or the sponsored channel gave nothing
ReadFromStorage(c) ==
    /\ ret.op = "resolve"
    /\ LET cached == CachedRecord(ret.before, ret.refId, c)
       IN cached = Null \/ cached.expiresAt <= ret.before.now
    /\ c \/ ret.result = Null \/ ~ret.result.isSponsored

\* C15 as stated: when the value stored under a key does not parse as a record, resolve
\* treats the channel as not found (it falls back to the next channel or returns none,
\* and does not throw) and deletes the corrupt entry from durable storage, so that the
\* next read does not meet it again.
C15_CorruptEntryDeleted ==
    \A c \in Channels :
        (/\ ReadFromStorage(c)
         /\ storageFault = "none"
         /\ StoredString(ret.before, ret.refId, c, ret.before.now) = Corrupt) =>
            /\ ~ret.threw
            /\ ret.result = Null \/ ret.result.isSponsored # c
            /\ StoredString(Stores, ret.refId, c, now) = Null

\* C16 as stated: a purchase spends an attribution record only once, also across the
\* instances (tabs) that share the durable storage and the customerId: once a purchase
\* tracked by one instance has consumed the record of a click, no later purchase tracked
\* by any instance is enriched with the record of that click (hist.respent collects the
\* clicks a later purchase was enriched with again).
C16_SpentOnceAcrossTabs == hist.respent = {}

\* C17 as stated: after a restart (a new instance with an empty cache over the same
\* durable storage and the same customerId), the first resolve of a product returns the
\* live record that was resolvable before the restart, and the cache holds it afterwards.
C17_RestartKeepsResolvable ==
    [][(/\ ret.op = "restart"
        /\ ret'.op = "resolve"
        /\ ret.resolvable[ret'.refId] # Null) =>
           LET r == ret.resolvable[ret'.refId]
           IN /\ ret'.result = r
              /\ Lookup(attributionData', MapKey(ret'.refId, Suffix(r.isSponsored))) = r]_vars

\* no channel of product p holds a live record in store st at time t
NoLiveRecord(st, p, t) == \A c \in Channels : LiveRecords(st, p, c, t) = {}

\* C18: trackCheckout never fails because attribution is missing.  It queues the checkout
\* event with one product per product given, and every product that had no live record
\* in either channel is queued unenriched: it carries the caller's fields and no other.
C18_CheckoutWithoutAttribution ==
    ret.op = "trackCheckout" =>
        /\ ~ret.threw
        /\ pendingEvents = Append(ret.before.pendingEvents, LastQueued)
        /\ LastQueued.type = "checkouts"
        /\ Len(LastQueued.data.products) = Len(ret.eventData.products)
        /\ \A i \in DOMAIN ret.eventData.products :
               LET product == ret.eventData.products[i]
               IN NoLiveRecord(ret.before, product.refId, ret.before.now) =>
                      LastQueued.data.products[i] =
                          [f \in DOMAIN product \cap ProductFields |-> product[f]]

\* a checkout of a product on which the caller set attribution fields, while the only
\* record of the product had expired: the queued product carries the caller's fields
C18_Witness ==
    /\ ret.op = "trackCheckout"
    /\ LET product == ret.eventData.products[1]
       IN /\ NoLiveRecord(ret.before, product.refId, ret.before.now)
          /\ \E c \in Channels : ExpiredRecords(ret.before, product.refId, c,
                                                ret.before.now) # {}
          /\ Get(product, "campaignId") = "cmpX"
          /\ LastQueued.type = "checkouts"
          /\ Get(LastQueued.data.products[1], "campaignId") = "cmpX"
          /\ Get(LastQueued.data.products[1], "widgetId") = Undefined

\* C19: only purchase consumes attribution.  trackCheckout and trackAddToCart delete or
\* modify no live record: every live record the store held before the call it holds
\* after it, and what a resolve of a product returned before the call (a live record) it
\* returns, with the same content, after it.
C19_OnlyPurchaseConsumes ==
    ret.op \in {"trackCheckout", "trackAddToCart"} =>
        \A p \in Products :
            /\ \A c \in Channels :
                   LiveRecords(ret.before, p, c, now) \subseteq LiveRecords(Stores, p, c, now)
            /\ LET resolved == GetAttributionData(ret.before, p).result
               IN resolved # Null => GetAttributionData(Stores, p).result = resolved

\* a checkout that was enriched with a live sponsored record while a live organic record
\* existed too: the store holds both afterwards, and the sponsored one still resolves
C19_Witness ==
    /\ ret.op = "trackCheckout"
    /\ LET p == ret.eventData.products[1].refId
           a == ret.attributions[1]
       IN /\ a # Null
          /\ a.isSponsored
          /\ LastQueued.type = "checkouts"
          /\ Get(LastQueued.data.products[1], "adSetId") = a.adSetId
          /\ CachedRecord(Stores, p, TRUE) = a
          /\ DurableRecord(Stores, p, TRUE, now) = a
          /\ LiveRecords(Stores, p, FALSE, now) # {}
          /\ GetAttributionData(Stores, p).result = a

\* C20: _prepareProductWithAttribution returns the record used, or none.  For every
\* product of a checkout or a purchase: the record returned is what a resolve of
\* product.refId returned; when it is a record, each identification field of the
\* enriched product has the record's value (also where the caller had set another one,
\* and where the record has none); when it is none, the product carries the caller's
\* fields and no other.
C20_PrepareProductReturnsRecordUsed ==
    ret.op \in {"trackCheckout", "trackPurchase"} =>
        \A i \in DOMAIN ret.eventData.products :
            LET product == ret.eventData.products[i]
                a == ret.attributions[i]
                enriched == LastQueued.data.products[i]
            IN /\ a = GetAttributionData(ret.before, product.refId).result
               /\ a # Null => \A f \in IdentFields : Get(enriched, f) = Get(a, f)
               /\ a = Null => enriched = [f \in DOMAIN product \cap ProductFields |->
                                             product[f]]

\* a purchase of a product on which the caller had set campaignId, enriched with a
\* sponsored record that has a widgetId and no campaignId: the enriched product has the
\* record's widgetId and no campaignId
C20_Witness ==
    /\ ret.op = "trackPurchase"
    /\ LET product == ret.eventData.products[1]
           a == ret.attributions[1]
           enriched == LastQueued.data.products[1]
       IN /\ a # Null
          /\ a = CachedRecord(ret.before, product.refId, TRUE)
          /\ Get(product, "campaignId") = "cmpX"
          /\ Get(a, "campaignId") = Undefined
          /\ Get(enriched, "campaignId") = Undefined
          /\ Get(enriched, "widgetId") = "w2"
          /\ Get(enriched, "quantity") = "2"

\* the retail media fields PAAddToCartEvent declares
AddToCartRetailMediaFields == SponsoredFields \ {"supplierId"}

\* C21 as stated: a trackAddToCart called with an explicit clickId and attribution fields
\* of the caller queues an add-to-cart event that carries the caller's clickId and every
\* attribution field the caller supplied, the retail media fields (adSetId, adSetVersion,
\* costPerClick, costPerAction, costPerMille, timeStamp, hmacSalt, hmac) included.
C21_ManualAttributionCarried ==
    (ret.op = "trackAddToCart" /\ Truthy(Get(ret.eventData, "clickId"))) =>
        /\ ~ret.threw
        /\ pendingEvents = Append(ret.before.pendingEvents, LastQueued)
        /\ LastQueued.type = "add-to-carts"
        /\ LastQueued.data.clickId = ret.eventData.clickId
        /\ \A f \in (IdentFields \cup AddToCartRetailMediaFields) \cap DOMAIN ret.eventData :
               Get(LastQueued.data, f) = ret.eventData[f]

\* the click carried a non-empty ad-set identifier
CarriedAdSet(eventData) == Get(eventData, "adSetId") \notin {Undefined, ""}

\* C22 as stated: the channel of a record is derived at write time.  A click that
\* trackClick stores is stored as sponsored (isSponsored = TRUE, under the sponsored key)
\* if and only if it carried a non-empty ad-set identifier, otherwise as organic,
\* whether the caller supplied the click or auto click tracking took it from the
\* data-pa-* attributes.
C22_ChannelFromAdSet ==
    (ret.op = "trackClick" /\ ret.stored) =>
        LET c == CarriedAdSet(ret.eventData)
            rec == CachedRecord(Stores, ret.eventData.refId, c)
        IN /\ ret.isSponsored = c
           /\ rec # Null
           /\ rec.clickId = ret.clickId
           /\ rec.isSponsored = c
           /\ DurableRecord(Stores, ret.eventData.refId, c, now) = rec

\* C23: a record is created only by a click with a product reference and a widget or
\* ad-set context.  A trackClick without refId, or with neither widgetId nor adSetId,
\* leaves the cache and durable storage as they were, and its click event is queued.
C23_NoRecordWithoutContext ==
    (/\ ret.op = "trackClick"
     /\ \/ Get(ret.eventData, "refId") \in {Undefined, ""}
        \/ /\ Get(ret.eventData, "widgetId") \in {Undefined, ""}
           /\ Get(ret.eventData, "adSetId") \in {Undefined, ""}) =>
        /\ attributionData = ret.before.attributionData
        /\ localStorage = ret.before.localStorage
        /\ cookies = ret.before.cookies
        /\ pendingEvents = Append(ret.before.pendingEvents, LastQueued)
        /\ LastQueued.type = "clicks"
        /\ LastQueued.data.clickId = ret.clickId

\* a click on p1 with no widget and no ad set while the store holds a record of p1 from
\* an earlier click: the record is the one still held, the click is queued
C23_Witness ==
    /\ ret.op = "trackClick"
    /\ Get(ret.eventData, "refId") = "p1"
    /\ Get(ret.eventData, "widgetId") = Undefined
    /\ Get(ret.eventData, "adSetId") = Undefined
    /\ \E c \in Channels :
           /\ CachedRecord(Stores, "p1", c) # Null
           /\ CachedRecord(Stores, "p1", c).clickId # ret.clickId
           /\ DurableRecord(Stores, "p1", c, now) = CachedRecord(Stores, "p1", c)
    /\ LastQueued.type = "clicks"
    /\ LastQueued.data.refId = "p1"

\* C24 as stated: every record written has expiresAt = storedAt + attributionWindow, and
\* with the cookie backend the expiry of the cookie that holds it is that expiresAt.
C24_ExpiryIsStoredAtPlusWindow ==
    (ret.op = "trackClick" /\ ret.stored) =>
        LET p == ret.eventData.refId
            rec == CachedRecord(Stores, p, ret.isSponsored)
            key == StorageKey(session.customerId, p, Suffix(ret.isSponsored))
        IN /\ rec # Null
           /\ rec.clickId = ret.clickId
           /\ rec.expiresAt = rec.storedAt + config.attributionWindow
           /\ ~UseLocalStorage =>
                  /\ key \in DOMAIN cookies
                  /\ cookies[key].value = JsonStringify(rec)
                  /\ cookies[key].expires = rec.expiresAt

\* C25: consume is idempotent.  Called for a (product, channel) of which nothing is held
\* it is not an error and changes nothing; a second call right after the first would
\* leave the state the first call left; the entries of every other (product, channel)
\* are as they were.
C25_ConsumeIdempotent ==
    ret.op = "consume" =>
        /\ ~ret.threw
        /\ Absent(ret.before, ret.refId, ret.isSponsored) =>
               /\ attributionData = ret.before.attributionData
               /\ localStorage = ret.before.localStorage
               /\ cookies = ret.before.cookies
        /\ CleanupExpiredAttributionData(Stores, ret.refId, {ret.isSponsored}) = Stores
        /\ \A p \in Products, c \in Channels :
               (p # ret.refId \/ c # ret.isSponsored) =>
                   SameEntries(ret.before, Stores, p, c)

\* a consume of the organic channel of p1, of which nothing was held, while the sponsored
\* record of p1 and a record of p2 were held: both are still held
C25_Witness ==
    /\ ret.op = "consume"
    /\ ret.refId = "p1"
    /\ ~ret.isSponsored
    /\ Absent(ret.before, "p1", FALSE)
    /\ CachedRecord(Stores, "p1", TRUE) # Null
    /\ DurableRecord(Stores, "p1", TRUE, now) = CachedRecord(Stores, "p1", TRUE)
    /\ CachedRecord(Stores, "p2", TRUE) # Null

\* the purchase in ret used the record of (p, c) for one of its line items
UsedByPurchase(p, c) ==
    \E i \in DOMAIN ret.eventData.products :
        /\ ret.eventData.products[i].refId = p
        /\ ret.attributions[i] # Null
        /\ ret.attributions[i].isSponsored = c

\* C30: trackPurchase resolves and enriches every product before it consumes any record,
\* and consumes after it has queued the purchase event.  Every line item, a repeated one
\* with the same refId included, is enriched from the store as it was when the call
\* began; the event is in the queue; and exactly the (refId, channel) whose record was
\* used are consumed: nothing is held of them afterwards, and the live records of every
\* other (refId, channel) are still held.
C30_EnrichAllThenConsume ==
    ret.op = "trackPurchase" =>
        /\ pendingEvents = Append(ret.before.pendingEvents, LastQueued)
        /\ LastQueued.type = "purchases"
        /\ Len(LastQueued.data.products) = Len(ret.eventData.products)
        /\ \A i \in DOMAIN ret.eventData.products :
               LET a == ret.attributions[i]
                   enriched == LastQueued.data.products[i]
               IN /\ a = GetAttributionData(ret.before, ret.eventData.products[i].refId).result
                  /\ a # Null => \A f \in IdentFields : Get(enriched, f) = Get(a, f)
                  /\ a = Null => \A f \in IdentFields :
                                     Get(enriched, f) = Get(ret.eventData.products[i], f)
        /\ \A p \in Products, c \in Channels :
               IF UsedByPurchase(p, c)
               THEN Absent(Stores, p, c)
               ELSE LiveRecords(ret.before, p, c, now) \subseteq LiveRecords(Stores, p, c, now)

\* a purchase of the same product in two line items while p1 had a live sponsored and a
\* live organic record: both items carry the sponsored record's widget, the sponsored
\* record is gone and the organic one is still held
C30_Witness ==
    /\ ret.op = "trackPurchase"
    /\ Len(ret.eventData.products) = 2
    /\ ret.eventData.products[1].refId = "p1"
    /\ ret.eventData.products[2].refId = "p1"
    /\ ret.attributions[1] # Null
    /\ ret.attributions[1].isSponsored
    /\ ret.attributions[2] = ret.attributions[1]
    /\ Get(LastQueued.data.products[2], "widgetId") = "w2"
    /\ Absent(Stores, "p1", TRUE)
    /\ LiveRecords(Stores, "p1", FALSE, now) # {}

\* C26 as stated: the customer id persists across sessions.  An instance that starts
\* after the timeout of the previous session has passed creates the new session passing
\* the previously stored customerId to the config endpoint, with the cookie backend as
\* with the localStorage backend.
C26_CustomerIdPersists ==
    (/\ ret.op = "start"
     /\ Truthy(ret.previous.customerId)
     /\ ret.previous.sessionTimeout <= now) =>
        /\ ret.created
        /\ ret.requested = ret.previous.customerId
        /\ session.customerId = ret.previous.customerId

\* the session last stored: its timeout, or none
StoredSessionTimeout ==
    IF GetStoredSession.found THEN GetStoredSession.sessionTimeout ELSE 0

\* C27 as stated: the session is extended on each user activity.  Every tracked event
\* moves session.sessionTimeout, in memory and in storage, to now + sessionDuration.
C27_SessionExtendedOnActivity ==
    (/\ ret.op \in {"trackClick", "trackAddToCart", "trackCheckout", "trackPurchase"}
     /\ ~ret.threw
     /\ Truthy(session.sessionId)) =>
        /\ session.sessionTimeout = now + SessionTicks
        /\ StoredSessionTimeout = now + SessionTicks

\* the sources of a page in the order of their priority, each with the id it yields
\* ("" when it yields none): the custom extractor, the URL patterns in configured order,
\* the meta selectors in configured order, the JSON-LD scripts in document order
SourceYields(page) ==
    <<IF page.custom \in {"none", "throws"} THEN "" ELSE page.custom>>
    \o page.url
    \o page.meta
    \o [i \in DOMAIN page.ldJson |->
           LET items == page.ldJson[i].items
               Yields(j) == items[j].type = "Product"
                            /\ (items[j].sku # "" \/ items[j].productID # "")
           IN IF page.ldJson[i].parses /\ \E j \in DOMAIN items : Yields(j)
              THEN LET j == CHOOSE k \in DOMAIN items :
                                /\ Yields(k)
                                /\ \A l \in 1..(k - 1) : ~Yields(l)
                   IN IF items[j].sku # "" THEN items[j].sku ELSE items[j].productID
              ELSE ""]

\* C28: product id detection tries its sources in a fixed priority: the custom
\* extractor (one that throws or returns nothing falls through), the URL patterns in
\* configured order, the meta selectors in configured order, the JSON-LD Product data.
\* The id returned is that of the first source that yields one, and a view-product event
\* with that id is queued; when no source yields an id, no event is queued.
C28_DetectionPriority ==
    ret.op = "detect" =>
        LET yields == SourceYields(ret.page)
            yielding == {i \in DOMAIN yields : yields[i] # ""}
        IN IF yielding = {}
           THEN /\ ret.productId = ""
                /\ pendingEvents = ret.before.pendingEvents
           ELSE /\ \E i \in yielding :
                       /\ \A j \in yielding : i <= j
                       /\ ret.productId = yields[i]
                /\ pendingEvents = Append(ret.before.pendingEvents, LastQueued)
                /\ LastQueued.type = "view-products"
                /\ LastQueued.data.refId = ret.productId

\* a page whose custom extractor throws, whose first URL pattern does not match and whose
\* second does, and which has meta and JSON-LD data too: the id of the second pattern
C28_Witness ==
    /\ ret.op = "detect"
    /\ ret.page.custom = "throws"
    /\ ret.page.url = <<"", "idU">>
    /\ ret.page.meta = <<"idM1", "idM2">>
    /\ Len(ret.page.ldJson) = 2
    /\ ret.productId = "idU"
    /\ LastQueued.type = "view-products"
    /\ LastQueued.data.refId = "idU"

\* C29 as stated: for one instance with a fixed customerId and no storage failures, after
\* any sequence of record, resolve and consume operations the cache mirrors durable
\* storage: every live record the cache holds for a (product, channel) is the record
\* durable storage holds under the corresponding key.
C29_CacheMirrorsStorage ==
    \A p \in Products, c \in Channels :
        LET cached == CachedRecord(Stores, p, c)
        IN (cached # Null /\ cached.expiresAt > now) =>
               DurableRecord(Stores, p, c, now) = cached

\* C31: while session.customerId is empty the attribution store is inert.  A trackClick
\* stores nothing and its click event is queued, a resolve returns none, a consume
\* deletes nothing: the cache and durable storage are as they were.  A resolve and a
\* trackClick with an empty product reference leave them as they were too.
C31_InertWithoutSession ==
    (/\ ret.op \in {"trackClick", "resolve", "consume"}
     /\ \/ session.customerId \in {Undefined, ""}
        \/ /\ ret.op = "resolve"
           /\ ret.refId = ""
        \/ /\ ret.op = "trackClick"
           /\ Get(ret.eventData, "refId") \in {Undefined, ""}) =>
        /\ attributionData = ret.before.attributionData
        /\ localStorage = ret.before.localStorage
        /\ cookies = ret.before.cookies
        /\ ret.op = "resolve" => ret.result = Null
        /\ ret.op = "trackClick" =>
               /\ pendingEvents = Append(ret.before.pendingEvents, LastQueued)
               /\ LastQueued.type = "clicks"
               /\ LastQueued.data.clickId = ret.clickId

\* a widget click on p1 tracked while the session was not established and durable
\* storage held a record of p1 from an earlier session: the click is queued, the cache is
\* empty and durable storage holds what it held
C31_Witness ==
    /\ ret.op = "trackClick"
    /\ session.customerId = Undefined
    /\ Get(ret.eventData, "refId") = "p1"
    /\ Get(ret.eventData, "widgetId") = "w1"
    /\ attributionData = Empty
    /\ DOMAIN localStorage \cup DOMAIN cookies # {}
    /\ LastQueued.type = "clicks"
    /\ LastQueued.data.clickId = ret.clickId

\* the keys of channel c ("s" or "o") a store can hold for the products and customers
CacheKeysOf(typeSuffix) == {MapKey(p, typeSuffix) : p \in Products}

StorageKeysOf(typeSuffix) ==
    {StorageKey(c, p, typeSuffix) : c \in Customers, p \in Products}

\* C32: in every reachable state every key of the cache and of durable storage is a
\* sponsored key or an organic key, a record under a sponsored key (suffix "s") has
\* isSponsored = TRUE and a record under an organic key (suffix "o") has isSponsored =
\* FALSE; and the channel a purchase consumes a record from is the channel whose key held
\* the record it resolved.
C32_KeyChannelIsRecordChannel ==
    /\ DOMAIN attributionData \subseteq CacheKeysOf("s") \cup CacheKeysOf("o")
    /\ DOMAIN localStorage \cup DOMAIN cookies
           \subseteq StorageKeysOf("s") \cup StorageKeysOf("o")
    /\ \A k \in DOMAIN attributionData :
           /\ k \in CacheKeysOf("s") => attributionData[k].isSponsored = TRUE
           /\ k \in CacheKeysOf("o") => attributionData[k].isSponsored = FALSE
    /\ \A k \in DOMAIN localStorage :
           /\ k \in StorageKeysOf("s") => localStorage[k].json.isSponsored = TRUE
           /\ k \in StorageKeysOf("o") => localStorage[k].json.isSponsored = FALSE
    /\ \A k \in DOMAIN cookies :
           /\ k \in StorageKeysOf("s") => cookies[k].value.json.isSponsored = TRUE
           /\ k \in StorageKeysOf("o") => cookies[k].value.json.isSponsored = FALSE
    /\ ret.op = "trackPurchase" =>
           \A i \in DOMAIN ret.consumed :
               \E j \in DOMAIN ret.attributions :
                   /\ ret.attributions[j] # Null
                   /\ ret.eventData.products[j].refId = ret.consumed[i].refId
                   /\ ret.attributions[j]
                          \in Records(ret.before, ret.consumed[i].refId,
                                      ret.consumed[i].isSponsored, now)

\* p1 holds a sponsored and an organic record at once, each under its own key
C32_Witness ==
    /\ MapKey("p1", "s") \in DOMAIN attributionData
    /\ MapKey("p1", "o") \in DOMAIN attributionData
    /\ attributionData[MapKey("p1", "s")].isSponsored = TRUE
    /\ attributionData[MapKey("p1", "o")].isSponsored = FALSE
    /\ DOMAIN localStorage \cup DOMAIN cookies # {}

\* C33: a record written for one product or customer is never returned for another: the
\* record a resolve returns was recorded by a click tracked under the customer of the
\* session, on the product that is resolved.  (An instance serves one customer here, so
\* the cache holds records of that customer only.)
C33_NeverReturnedForAnother ==
    (ret.op = "resolve" /\ ret.result # Null) =>
        /\ Lookup(hist.owner, ret.result.clickId) = session.customerId
        /\ ret.result.widgetId = "w_" \o ret.refId

\* the events of the calls of _sendEvents so far, in the order of the calls
RECURSIVE HandedEvents(_)
HandedEvents(calls) ==
    IF calls = <<>> THEN <<>> ELSE Head(calls).events \o HandedEvents(Tail(calls))

\* the queued events, as _queueEvent stored them
PendingData == [i \in 1..Len(pendingEvents) |-> pendingEvents[i].data]

\* C34: every event passed to _queueEvent is in the queue or was handed to _sendEvents,
\* exactly once in all (none is lost, none is handed twice, none that was handed is still
\* queued); it was handed in a batch of the type it was queued under; and the events of
\* one type were handed in the order they were queued, those still queued coming after
\* them.  This holds whatever sends are in flight.
C34_HandedExactlyOnceInOrder ==
    LET all == HandedEvents(sends) \o PendingData
    IN /\ Len(all) = idsGenerated
       /\ {all[i].tag : i \in DOMAIN all} = 1..idsGenerated
       /\ \A i \in DOMAIN sends :
              /\ sends[i].events # <<>>
              /\ \A k \in DOMAIN sends[i].events :
                     sends[i].events[k].queuedAs = sends[i].eventType
       /\ \A i, j \in DOMAIN all :
              (i < j /\ all[i].queuedAs = all[j].queuedAs) => all[i].tag < all[j].tag

\* a flush handed a batch of clicks and a batch of views, a later flush handed the clicks
\* queued while the first batch was in flight, which it still is, and an event is queued
C34_Witness ==
    /\ Len(sends) = 3
    /\ sends[1].eventType = "clicks"
    /\ sends[2].eventType = "view-products"
    /\ sends[3].eventType = "clicks"
    /\ sends[1].request = "inFlight"
    /\ sends[3].request = "inFlight"
    /\ Len(pendingEvents) = 1
    /\ Truthy(session.customerId)

\* the tags of the events handed to _sendEvents by the calls
HandedTags(calls) ==
    {HandedEvents(calls)[k].tag : k \in DOMAIN HandedEvents(calls)}

\* C36: delivery is at most once and never retried.  In every step: a call of _sendEvents
\* keeps its batch and its payload, and once it has posted nothing, or its request has
\* been answered or has failed, it stays so; an event that was handed to _sendEvents is
\* not in the queue again and is in no later batch; a batch flushed without a customerId
\* or a sessionId is not posted; and every payload posted holds a customerId and a
\* sessionId.
C36_AtMostOnceNeverRetried ==
    [][/\ Len(sends') >= Len(sends)
       /\ \A i \in DOMAIN sends :
              /\ sends'[i].eventType = sends[i].eventType
              /\ sends'[i].events = sends[i].events
              /\ sends'[i].payload = sends[i].payload
              /\ sends[i].request # "inFlight" => sends'[i].request = sends[i].request
       /\ \A k \in DOMAIN pendingEvents' :
              pendingEvents'[k].data.tag \notin HandedTags(sends')
       /\ \A i \in DOMAIN sends' \ DOMAIN sends :
              /\ \A k \in DOMAIN sends'[i].events :
                     sends'[i].events[k].tag \notin HandedTags(sends)
              /\ (~Truthy(session.customerId) \/ ~Truthy(session.sessionId))
                     => sends'[i].payload = Null
       /\ \A i \in DOMAIN sends' :
              IF sends'[i].payload = Null
              THEN sends'[i].request = "none"
              ELSE /\ Truthy(sends'[i].payload.customerId)
                   /\ Truthy(sends'[i].payload.sessionId)
                   /\ sends'[i].payload.events = sends'[i].events
      ]_vars

\* a batch was flushed before the session was created and posted nothing, the request of
\* a later batch has failed, and with the session established and the timer at rest the
\* queue is empty: the events of both are gone
C36_Witness ==
    /\ Len(sends) = 2
    /\ sends[1].request = "none"
    /\ sends[1].payload = Null
    /\ sends[2].request = "failed"
    /\ Truthy(session.customerId)
    /\ Truthy(session.sessionId)
    /\ pendingEvents = <<>>
    /\ eventBatchTimeout = "none"

\* C35: every queued event is eventually flushed: whenever the queue holds events it is
\* empty again later, also when further events keep being queued less than 100 ms apart.
C35_EventuallyFlushed == (pendingEvents # <<>>) ~> (pendingEvents = <<>>)

\* C37: after createSession has succeeded, session.sessionTimeout, in memory and in
\* storage, is the time of the creation plus the session duration the config endpoint
\* returned.
C37_TimeoutFromResponse ==
    ret.op = "createSession" =>
        /\ session.sessionTimeout = ret.at + ret.duration
        /\ StoredSessionTimeout = ret.at + ret.duration

\* C38: the proxy forwards a request to the PA API only when its event type is one of
\* the seven valid types; a request with any other event type is never forwarded and,
\* once answered, has been answered with status 400, whatever the token cache held and
\* however the token request ended.
C38_InvalidTypeIs400 ==
    \A i \in DOMAIN proxy.requests :
        /\ proxy.requests[i].forwarded => proxy.requests[i].eventType \in ValidEventTypes
        /\ (proxy.requests[i].eventType \notin ValidEventTypes
                /\ proxy.requests[i].pc = "done") => proxy.requests[i].status = 400

============================================================================
